---- MODULE Spec2Model ----
(***************************************************************************)
(* Model of the data-acquisition core of the SEO Maturity Grader:          *)
(*   utils/rate_limiter.py   RateLimiter, with_rate_limit                  *)
(*   utils/cache.py          get_cache, make_cache_key, cache_result       *)
(*   adapters/*.py           the four metric adapters                     *)
(*                                                                         *)
(* The program runs on one asyncio event loop: a coroutine runs without    *)
(* interruption until it suspends on a lock that is taken, on a sleep or   *)
(* on an external call.  One action of the model is one such run.          *)
(* Times are whole seconds.                                                *)
(***************************************************************************)
EXTENDS Integers, Sequences, FiniteSets, TLC

VARIABLES
    clock,      \* time.time(), in seconds
    th,         \* the tasks: th[t] is the record of task t's position and locals
    rlStates,   \* RateLimiter._states : origin -> RateLimitState
    rlLocks,    \* RateLimiter._locks  : lock key -> the task holding it, or NoTask
    clean,      \* history: the origins whose last report was report_success
    caches,     \* cache._caches : namespace -> TTLCache
    settings,   \* config.settings : which API keys the environment provides
    job         \* the scoring call or the evaluation in progress, with its result

vars == <<clock, th, rlStates, rlLocks, clean, caches, settings, job>>

(***************************************************************************)
(* Bounds of the model                                                     *)
(***************************************************************************)
StartTime == 5       \* the clock's value when the process starts
MaxTicks == 3        \* seconds the clock may advance
MaxFailCount == 4    \* cap on consecutive_failures

(***************************************************************************)
(* Program constants of RateLimiter.__init__ (the singleton is built with  *)
(* the defaults)                                                           *)
(***************************************************************************)
RequestsPerSecond == 1
MaxRetries == 3
BaseBackoff == 1
MaxBackoff == 30

MinInterval == 1 \div RequestsPerSecond

\* config.Settings: every API key is optional and absent by default; a field
\* is TRUE when the environment provides the key
NoKeys ==
    [pagespeed_api_key |-> FALSE, serpapi_key |-> FALSE, gcs_api_key |-> FALSE,
     gcs_cx |-> FALSE, whoisxml_api_key |-> FALSE, moz_access_id |-> FALSE,
     moz_secret_key |-> FALSE, ahrefs_api_key |-> FALSE,
     majestic_api_key |-> FALSE]

\* no scoring call is in progress
NoJob == [fn |-> "none"]

\* the defaults of get_cache
Maxsize == 1000
Ttl == 21600

Origins == {"pagespeed", "serpapi"}
NoTask == "no task"

Range(f) == {f[i] : i \in DOMAIN f}

Min2(a, b) == IF a < b THEN a ELSE b

RECURSIVE Pow2(_)
Pow2(n) == IF n <= 0 THEN 1 ELSE 2 * Pow2(n - 1)

(***************************************************************************)
(* RateLimitState and the lazily filled dictionaries                       *)
(***************************************************************************)
RateLimitState ==
    [last_request_time |-> 0, consecutive_failures |-> 0, backoff_until |-> 0]

\* f with key k bound to v when k is not yet a key of f
SetDefault(f, k, v) ==
    IF k \in DOMAIN f THEN f
    ELSE [x \in DOMAIN f \cup {k} |-> IF x = k THEN v ELSE f[x]]

LockKeyShared(origin) == "all"
\* _get_lock: the key under which the lock of an origin is kept
LockKey(origin) == origin

GetLock(locks, origin) == SetDefault(locks, LockKey(origin), NoTask)
GetState(states, origin) == SetDefault(states, origin, RateLimitState)

(***************************************************************************)
(* The waits of acquire and the backoff of report_failure                  *)
(***************************************************************************)
BackoffWait(s, now) == s.backoff_until - now

IntervalWaitNone(s, now) == 0
IntervalWait(s, now) == MinInterval - (now - s.last_request_time)

BackoffForDoubled(failures) == Min2(BaseBackoff * Pow2(failures), MaxBackoff)
BackoffFor(failures) == Min2(BaseBackoff * Pow2(failures - 1), MaxBackoff)

ReportSuccessKeepBackoff(s) == [s EXCEPT !.consecutive_failures = 0]
\* report_success: the new state of the origin
ReportSuccess(s) == [s EXCEPT !.consecutive_failures = 0, !.backoff_until = 0]

\* report_failure: the new state of the origin, and the value returned
ReportFailure(s, now) ==
    LET n == s.consecutive_failures + 1 IN
    IF n > MaxRetries
    THEN [state |-> [s EXCEPT !.consecutive_failures = n], ret |-> FALSE]
    ELSE [state |-> [s EXCEPT !.consecutive_failures = n,
                               !.backoff_until = now + BackoffFor(n)],
          ret |-> TRUE]

(***************************************************************************)
(* Tasks                                                                   *)
(***************************************************************************)
\* two tasks that call rate-limited functions concurrently
Clients == {"client1", "client2"}

\* pc: the position; origin, lock: the locals of acquire; wake: the end of the
\* pending sleep; report: how the last wrapped call ended ("none" while it runs,
\* "success", and "retry" or "exhausted" for can_retry true or false)
IdleTask ==
    [pc |-> "idle", origin |-> "", lock |-> "", wake |-> 0, report |-> "none",
     kind |-> "client"]

\* the positions of a task inside acquire
AcquirePcs == {"wait_lock", "sleep_backoff", "sleep_interval"}
\* the positions of a task inside the critical section of acquire
CriticalPcs == {"sleep_backoff", "sleep_interval"}
\* the position of a task whose acquire has returned and whose wrapped call runs
FuncPcs == {"in_func", "http"}

LockFree(locks, origin) ==
    /\ locks[LockKey(origin)] = NoTask
    /\ \A u \in DOMAIN th :
          ~(th[u].pc = "wait_lock" /\ th[u].lock = LockKey(origin))

\* a mutation of acquire and the wrapper: the lock is kept while the wrapped
\* call runs
CompleteHolding(t, r, st, lk) ==
    /\ rlStates' = [st EXCEPT ![r.origin].last_request_time = clock]
    /\ rlLocks' = [lk EXCEPT ![r.lock] = t]
    /\ th' = [th EXCEPT ![t] =
                [r EXCEPT !.pc = IF r.kind = "client" THEN "in_func" ELSE "http",
                          !.wake = 0]]

\* acquire, line 104: stamp the origin, leave the lock, start the wrapped call
Complete(t, r, st, lk) ==
    /\ rlStates' = [st EXCEPT ![r.origin].last_request_time = clock]
    /\ rlLocks' = [lk EXCEPT ![r.lock] = NoTask]
    /\ th' = [th EXCEPT ![t] =
                [r EXCEPT !.pc = IF r.kind = "client" THEN "in_func" ELSE "http",
                          !.wake = 0]]

\* acquire, lines 97-104: the minimum interval
IntervalPhase(t, r, st, lk) ==
    LET s == st[r.origin]
        now == clock
        elapsed == now - s.last_request_time
    IN  IF elapsed < MinInterval
        THEN /\ th' = [th EXCEPT ![t] =
                        [r EXCEPT !.pc = "sleep_interval",
                                  !.wake = now + IntervalWait(s, now)]]
             /\ rlStates' = st
             /\ rlLocks' = [lk EXCEPT ![r.lock] = t]
        ELSE Complete(t, r, st, lk)

\* acquire, lines 87-95: the lock is taken, the backoff window is looked at
BackoffPhase(t, r, st, lk) ==
    LET s == st[r.origin]
        now == clock
    IN  IF now < s.backoff_until
        THEN /\ th' = [th EXCEPT ![t] =
                        [r EXCEPT !.pc = "sleep_backoff",
                                  !.wake = now + BackoffWait(s, now)]]
             /\ rlStates' = st
             /\ rlLocks' = [lk EXCEPT ![r.lock] = t]
        ELSE IntervalPhase(t, r, st, lk)

\* acquire, lines 84-87: the lock and the state are fetched (and made on first
\* use); the caller goes on when the lock is free and queues otherwise
AcquireFrom(t, r, states, locks) ==
    LET lk == GetLock(locks, r.origin)
        st == GetState(states, r.origin)
    IN  IF LockFree(lk, r.origin)
        THEN BackoffPhase(t, r, st, lk)
        ELSE /\ th' = [th EXCEPT ![t] = [r EXCEPT !.pc = "wait_lock"]]
             /\ rlStates' = st
             /\ rlLocks' = lk

Acquire(t, r) == AcquireFrom(t, r, rlStates, rlLocks)

(***************************************************************************)
(* Actions of the rate limiter under with_rate_limit                       *)
(***************************************************************************)
\* wrapper, lines 174-177: a task calls a rate-limited function
RLCall(t) ==
    /\ th[t].pc = "idle"
    /\ \E o \in Origins :
          Acquire(t, [th[t] EXCEPT !.origin = o, !.lock = LockKey(o),
                                   !.report = "none"])
    /\ UNCHANGED <<clock, clean, caches, settings, job>>

\* a queued task is given the lock
LockGranted(t) ==
    /\ th[t].pc = "wait_lock"
    /\ rlLocks[th[t].lock] = NoTask
    /\ BackoffPhase(t, th[t], rlStates, rlLocks)
    /\ UNCHANGED <<clock, clean, caches, settings, job>>

\* the sleep of line 94 is over
WakeBackoff(t) ==
    /\ th[t].pc = "sleep_backoff"
    /\ clock >= th[t].wake
    /\ IntervalPhase(t, th[t], rlStates, rlLocks)
    /\ UNCHANGED <<clock, clean, caches, settings, job>>

\* the sleep of line 102 is over
WakeInterval(t) ==
    /\ th[t].pc = "sleep_interval"
    /\ clock >= th[t].wake
    /\ Complete(t, th[t], rlStates, rlLocks)
    /\ UNCHANGED <<clock, clean, caches, settings, job>>

\* wrapper, lines 180-182: the wrapped function returns
FuncReturn(t) ==
    /\ th[t].pc = "in_func"
    /\ LET o == th[t].origin
           st == GetState(rlStates, o)
       IN  /\ rlStates' = [st EXCEPT ![o] = ReportSuccess(st[o])]
           /\ clean' = clean \cup {o}
    /\ th' = [th EXCEPT ![t] = [IdleTask EXCEPT !.report = "success"]]
    /\ UNCHANGED <<clock, rlLocks, caches, settings, job>>

\* wrapper, lines 183-187: the wrapped function raises
FuncRaise(t) ==
    /\ th[t].pc = "in_func"
    /\ LET o == th[t].origin
           st == GetState(rlStates, o)
           rf == ReportFailure(st[o], clock)
       IN  /\ st[o].consecutive_failures < MaxFailCount
           /\ rlStates' = [st EXCEPT ![o] = rf.state]
           /\ clean' = clean \ {o}
           /\ th' = [th EXCEPT ![t] =
                      [IdleTask EXCEPT !.report = IF rf.ret THEN "retry"
                                                  ELSE "exhausted"]]
    /\ UNCHANGED <<clock, rlLocks, caches, settings, job>>

Tick ==
    /\ (clock - StartTime) % (Ttl - 1) < MaxTicks
    /\ clock' = clock + 1
    /\ UNCHANGED <<th, rlStates, rlLocks, clean, caches, settings, job>>

InitLimiter ==
    /\ clock = StartTime
    /\ th = [t \in Clients |-> IdleTask]
    /\ rlStates = [o \in {} |-> RateLimitState]
    /\ rlLocks = [k \in {} |-> NoTask]
    /\ clean = {}
    /\ caches = [n \in {} |-> 0]
    /\ settings = NoKeys
    /\ job = NoJob

NextLimiter ==
    \/ \E t \in DOMAIN th : RLCall(t)
    \/ \E t \in DOMAIN th : LockGranted(t)
    \/ \E t \in DOMAIN th : WakeBackoff(t)
    \/ \E t \in DOMAIN th : WakeInterval(t)
    \/ \E t \in DOMAIN th : FuncReturn(t)
    \/ \E t \in DOMAIN th : FuncRaise(t)
    \/ Tick

SpecLimiter == InitLimiter /\ [][NextLimiter]_vars

(***************************************************************************)
(* Steps of the rate limiter, as seen from outside                         *)
(***************************************************************************)
\* task t's acquire returns in this step
AcquireReturns(t) ==
    /\ th[t].pc \in {"idle"} \cup AcquirePcs
    /\ th'[t].pc \in FuncPcs

\* task t enters the critical section of acquire in this step
AcquireEnters(t) ==
    /\ th[t].pc \in {"idle", "wait_lock"}
    /\ th'[t].pc \in CriticalPcs \cup FuncPcs

\* task t's wrapped call ends with report_success / report_failure in this step
SuccessReported(t) == th[t].pc \in FuncPcs /\ th'[t].report = "success"
FailureReported(t) ==
    th[t].pc \in FuncPcs /\ th'[t].report \in {"retry", "exhausted"}

\* the state of an origin that has none yet is the one _get_state would make
StateOf(states, o) == IF o \in DOMAIN states THEN states[o] ELSE RateLimitState

(***************************************************************************)
(* C1: two successive completions of acquire on one origin are at least    *)
(* min_interval apart, the completion time being the last_request_time     *)
(* written on exit, whatever the interleaving of the callers.              *)
(***************************************************************************)
C1_Pacing ==
    [][\A t \in DOMAIN th :
          AcquireReturns(t) =>
              LET o == th'[t].origin
                  before == StateOf(rlStates, o).last_request_time
                  after == rlStates'[o].last_request_time
              IN  /\ after = clock
                  /\ before > 0 => after - before >= MinInterval]_vars

\* two calls on one origin have both passed acquire, after a wait
C1_Witness ==
    \E t, u \in DOMAIN th :
        /\ t # u
        /\ th[t].pc \in FuncPcs /\ th[u].pc \in FuncPcs
        /\ th[t].origin = th[u].origin
        /\ rlStates[th[t].origin].last_request_time > StartTime

(***************************************************************************)
(* C2: acquire never returns while the clock is before the origin's        *)
(* backoff_until, also when report_failure arrives while the acquirer      *)
(* waits.  (The code looks at backoff_until once, on entry.)               *)
(***************************************************************************)
C2_NoReturnInBackoff ==
    [][\A t \in DOMAIN th :
          AcquireReturns(t) =>
              clock >= rlStates'[th'[t].origin].backoff_until]_vars

(***************************************************************************)
(* C3 as claimed: every report_failure adds one to consecutive_failures,   *)
(* sets backoff_until to now + min(max_backoff, base * 2^(failures-1)) and *)
(* returns failures <= max_retries, also when it returns false.            *)
(***************************************************************************)
C3_AlwaysSetsBackoff ==
    [][\A t \in DOMAIN th :
          FailureReported(t) =>
              LET o == th[t].origin
                  n == rlStates'[o].consecutive_failures
              IN  /\ n = rlStates[o].consecutive_failures + 1
                  /\ rlStates'[o].backoff_until
                         = clock + Min2(MaxBackoff, BaseBackoff * Pow2(n - 1))
                  /\ (th'[t].report = "retry") <=> (n <= MaxRetries)]_vars

(***************************************************************************)
(* C3 amended: every report_failure adds one to consecutive_failures and   *)
(* returns failures <= max_retries; it sets backoff_until to               *)
(* now + min(max_backoff, base * 2^(failures-1)) when it returns true and  *)
(* leaves backoff_until as it was when it returns false.                   *)
(***************************************************************************)
C3_BackoffWhileRetriesRemain ==
    [][\A t \in DOMAIN th :
          FailureReported(t) =>
              LET o == th[t].origin
                  n == rlStates'[o].consecutive_failures
              IN  /\ n = rlStates[o].consecutive_failures + 1
                  /\ (th'[t].report = "retry") <=> (n <= MaxRetries)
                  /\ rlStates'[o].last_request_time
                         = rlStates[o].last_request_time
                  /\ rlStates'[o].backoff_until
                         = IF n <= MaxRetries
                           THEN clock + Min2(MaxBackoff, BaseBackoff * Pow2(n - 1))
                           ELSE rlStates[o].backoff_until]_vars

\* a report_failure has returned false, after the ones that returned true
C3_Witness ==
    \E t \in DOMAIN th, o \in DOMAIN rlStates :
        /\ th[t].report = "exhausted"
        /\ rlStates[o].consecutive_failures = MaxRetries + 1
        /\ rlStates[o].backoff_until > 0

C5_PerOriginExclusion ==
    /\ \A t, u \in DOMAIN th :
          (/\ th[t].pc \in CriticalPcs /\ th[u].pc \in CriticalPcs
           /\ th[t].origin = th[u].origin) => t = u
    /\ \A t \in DOMAIN th :
          th[t].pc \in CriticalPcs => rlLocks[th[t].lock] = t
    /\ \A t \in DOMAIN th :
          th[t].pc = "wait_lock" =>
              LET holder == rlLocks[th[t].lock] IN
              holder # NoTask => th[holder].origin = th[t].origin

\* one task sleeps in the critical section of one origin while another task is
\* inside the critical section of a different origin
C5_Witness ==
    \E t, u \in DOMAIN th :
        /\ th[t].pc \in CriticalPcs /\ th[u].pc \in CriticalPcs
        /\ th[t].origin # th[u].origin

(***************************************************************************)
(* The response cache: cachetools.TTLCache as cache.py uses it             *)
(*                                                                         *)
(* A TTLCache keeps its entries in the order of their last use (the order  *)
(* popitem evicts in); an entry is a key, a value and the time it expires. *)
(* "older" counts entries stored before the model starts, for keys the     *)
(* model never asks for again: they are the least recently used ones.      *)
(* "stored" is history: the time the entry was written.                    *)
(***************************************************************************)
\* get_cache: TTLCache(maxsize=maxsize, ttl=ttl)
TTLCache(older, now) ==
    [maxsize |-> Maxsize, ttl |-> Ttl, older |-> older,
     older_expires |-> now + Ttl, items |-> <<>>]

GetCache(cs, name) == SetDefault(cs, name, TTLCache(0, clock))

Size(c) == c.older + Len(c.items)

Positions(c, key) == {i \in DOMAIN c.items : c.items[i].key = key}

\* TTLCache.__contains__
Contains(c, key, now) ==
    \E i \in Positions(c, key) : now < c.items[i].expires

RemoveNothing(items, key) == items
\* the entries other than the one of key, in their order
Remove(items, key) == SelectSeq(items, LAMBDA it : it.key # key)

\* TTLCache.expire
Expire(c, now) ==
    [c EXCEPT !.older = IF now < c.older_expires THEN @ ELSE 0,
              !.items = SelectSeq(@, LAMBDA it : now < it.expires)]

\* TTLCache.popitem: the least recently used entry goes
PopItem(c) ==
    IF c.older > 0 THEN [c EXCEPT !.older = @ - 1]
    ELSE [c EXCEPT !.items = Tail(@)]

EvictNothing(c) == c
\* Cache.__setitem__: while there is no room for one more entry, popitem
RECURSIVE MakeRoom(_)
MakeRoom(c) == IF Size(c) + 1 > c.maxsize THEN MakeRoom(PopItem(c)) ELSE c

\* TTLCache.__setitem__
SetItem(c, key, value, now) ==
    LET live == Expire(c, now)
        room == IF Positions(live, key) # {} THEN live ELSE MakeRoom(live)
    IN  [room EXCEPT !.items =
            Append(Remove(@, key),
                   [key |-> key, value |-> value, expires |-> now + room.ttl,
                    stored |-> now])]

\* TTLCache.__getitem__: the entry becomes the most recently used one; the value
\* is returned unless the entry has expired by now
GetItem(c, key, now) ==
    LET i == CHOOSE i \in Positions(c, key) : TRUE
        it == c.items[i]
    IN  [cache |-> [c EXCEPT !.items = Append(Remove(@, key), it)],
         found |-> now < it.expires,
         value |-> it.value,
         stored |-> it.stored]

\* make_cache_key: the arguments as str() renders them, joined; the MD5 digest
\* of the joined string is taken to be free of collisions
MakeCacheKey(prefix, args) == <<prefix>> \o args

(***************************************************************************)
(* cache_result.async_wrapper around a function that takes time            *)
(***************************************************************************)
CacheName == "pagespeed"
CachedArgs == {<<"x">>, <<"y">>}
Values == {"v1", "v2"}
NoValue == "none"

\* the locals of async_wrapper: name, key; the value returned, and whether it
\* came out of the cache ("hit"), from the function ("fresh") or the lookup
\* raised ("KeyError")
CachedTask ==
    [pc |-> "idle", kind |-> "cached", name |-> "", key |-> <<>>,
     result |-> NoValue, how |-> "none"]

CacheClients == {"caller1", "caller2"}

\* where a call that has returned stands
ReturnedPc(r) == IF r.kind = "adapter" THEN "done" ELSE "idle"

\* lines 89-95: the lookup finds a live entry. The clock is read by "in" and
\* again by the subscript, and may have moved by then.
Lookup(t, r, later) ==
    LET cs == GetCache(caches, r.name)
        c == cs[r.name]
        g == GetItem(c, r.key, later)
    IN  /\ Contains(c, r.key, clock)
        /\ caches' = [cs EXCEPT ![r.name] = g.cache]
        /\ th' = [th EXCEPT ![t] =
               IF g.found
               THEN [r EXCEPT !.pc = ReturnedPc(r), !.result = g.value,
                              !.how = "hit"]
               ELSE [r EXCEPT !.pc = ReturnedPc(r), !.how = "KeyError"]]
        /\ UNCHANGED <<rlStates, rlLocks>>

\* lines 89-98: the lookup finds no live entry, the wrapped function is called
Miss(r) == ~Contains(GetCache(caches, r.name)[r.name], r.key, clock)

\* the cached function starts and is suspended
EnterFunc(t, r, cs) ==
    /\ caches' = cs
    /\ th' = [th EXCEPT ![t] = [r EXCEPT !.pc = "in_cfunc"]]
    /\ UNCHANGED <<rlStates, rlLocks>>

\* lines 88-98: a task calls the cached function
CachedCall(t) ==
    /\ th[t].pc = "idle"
    /\ \E args \in CachedArgs, later \in {clock, clock + 1} :
          LET r == [CachedTask EXCEPT !.name = CacheName,
                                      !.key = MakeCacheKey("psi_", args)]
          IN  \/ Lookup(t, r, later)
              \/ Miss(r) /\ EnterFunc(t, r, GetCache(caches, r.name))
    /\ UNCHANGED <<clock, clean, settings, job>>

\* a mutation of the store: a result that holds an error note is returned
\* and not stored
StoreUnlessError(t, r, cs, value) ==
    /\ caches' = IF \E i \in DOMAIN value.items : value.items[i].error # "None"
                 THEN cs
                 ELSE [cs EXCEPT ![r.name] = SetItem(@, r.key, value, clock)]
    /\ th' = [th EXCEPT ![t] =
                [r EXCEPT !.pc = ReturnedPc(r), !.result = value,
                          !.how = "fresh"]]

\* lines 100-104: the store
Store(t, r, cs, value) ==
    /\ caches' = [cs EXCEPT ![r.name] = SetItem(@, r.key, value, clock)]
    /\ th' = [th EXCEPT ![t] =
                [r EXCEPT !.pc = ReturnedPc(r), !.result = value,
                          !.how = "fresh"]]

\* lines 98-104: the function returns a value, which is stored and returned
CFuncReturn(t) ==
    /\ th[t].pc = "in_cfunc"
    /\ \E v \in Values : Store(t, th[t], GetCache(caches, th[t].name), v)
    /\ UNCHANGED <<clock, rlStates, rlLocks, clean, settings, job>>

\* nearly a whole TTL passes, once
LongWait ==
    /\ clock - StartTime < Ttl - 1
    /\ clock' = clock + (Ttl - 1)
    /\ UNCHANGED <<th, rlStates, rlLocks, clean, caches, settings, job>>

\* the process is new, or has run and its namespace is full
InitCache ==
    /\ clock = StartTime
    /\ th = [t \in CacheClients |-> CachedTask]
    /\ rlStates = [o \in {} |-> RateLimitState]
    /\ rlLocks = [k \in {} |-> NoTask]
    /\ clean = {}
    /\ \/ caches = [n \in {} |-> 0]
       \/ caches = [n \in {CacheName} |-> TTLCache(Maxsize, StartTime)]
    /\ settings = NoKeys
    /\ job = NoJob

NextCache ==
    \/ \E t \in DOMAIN th : CachedCall(t)
    \/ \E t \in DOMAIN th : CFuncReturn(t)
    \/ Tick
    \/ LongWait

SpecCache == InitCache /\ [][NextCache]_vars

(***************************************************************************)
(* Properties of the cache                                                 *)
(***************************************************************************)
Namespace(cs, name) == IF name \in DOMAIN cs THEN cs[name] ELSE TTLCache(0, 0)

\* the step is one of task t, whose call returns in it
Returned(t, how) ==
    /\ th'[t] # th[t]
    /\ th'[t].pc = "idle"
    /\ th'[t].how = how

\* C7: the cache does not coalesce requests.  A call whose key has no live
\* entry runs the function, whoever else is running it; a call that is in the
\* function stays there until it stores its own value; a value is served only
\* if it was in the namespace before the lookup; and after every store the
\* namespace holds exactly one entry for the key, the value just written,
\* every other key keeping at most one entry.
C7_NoCoalescing ==
    [][/\ \A n \in DOMAIN caches' : \A i, j \in DOMAIN caches'[n].items :
             caches'[n].items[i].key = caches'[n].items[j].key => i = j
       /\ \A t \in DOMAIN th :
        LET r == th'[t]
            before == Namespace(caches, r.name)
            after == Namespace(caches', r.name)
        IN  /\ (th[t].pc = "idle" /\ r.pc = "in_cfunc")
                 => ~Contains(before, r.key, clock)
            /\ (th[t].pc = "idle" /\ ~Contains(Namespace(caches, CacheName),
                                               r.key, clock) /\ r # th[t])
                 => r.pc = "in_cfunc"
            /\ th[t].pc = "in_cfunc"
                 => \/ r = th[t]
                    \/ /\ Returned(t, "fresh")
                       /\ r.key = th[t].key
                       /\ \E i \in DOMAIN after.items :
                             /\ Positions(after, r.key) = {i}
                             /\ after.items[i].value = r.result
                             /\ after.items[i].stored = clock
            /\ Returned(t, "hit")
                 => \E i \in Positions(before, r.key) :
                       before.items[i].value = r.result
      ]_vars

\* two identical calls were in the function together: one has stored its
\* value, the other is still running and will store again
C7_Witness ==
    \E t1, t2 \in DOMAIN th :
        /\ t1 # t2
        /\ th[t1].pc = "in_cfunc"
        /\ th[t2].pc = "idle" /\ th[t2].how = "fresh"
        /\ th[t1].key = th[t2].key
        /\ Contains(Namespace(caches, CacheName), th[t1].key, clock)

\* C8: a namespace never holds more than maxsize (1000) entries, a store
\* into a full namespace evicting instead of growing it, and no lookup
\* returns an entry more than the TTL (6 hours) after it was stored.
C8_SizeAndAge ==
    [][/\ \A n \in DOMAIN caches' : Size(caches'[n]) <= 1000
       /\ \A n \in DOMAIN caches :
             (Size(caches[n]) = 1000 /\ n \in DOMAIN caches')
                => Size(caches'[n]) <= 1000
       /\ \A t \in DOMAIN th :
             Returned(t, "hit")
                => \E i \in Positions(Namespace(caches, th'[t].name),
                                      th'[t].key) :
                      /\ caches[th'[t].name].items[i].value = th'[t].result
                      /\ clock - caches[th'[t].name].items[i].stored < 21600
      ]_vars

\* a full namespace has taken two stores and is still at its bound, and an
\* entry one second short of its TTL has just been served
C8_Witness ==
    /\ CacheName \in DOMAIN caches
    /\ LET c == caches[CacheName] IN
       /\ Size(c) = Maxsize
       /\ c.older = Maxsize - 2
       /\ \E t \in DOMAIN th, i \in DOMAIN c.items :
             /\ th[t].pc = "idle" /\ th[t].how = "hit"
             /\ c.items[i].key = th[t].key
             /\ clock - c.items[i].stored = Ttl - 1

(***************************************************************************)
(* The adapters                                                            *)
(*                                                                         *)
(* A request builds its own adapter objects and fetches one signal: the    *)
(* public method looks the call up in the cache and, on a miss, goes       *)
(* through the rate limiter to the backend or runs the fallback.           *)
(***************************************************************************)
AllKeys ==
    [pagespeed_api_key |-> TRUE, serpapi_key |-> TRUE, gcs_api_key |-> TRUE,
     gcs_cx |-> TRUE, whoisxml_api_key |-> TRUE, moz_access_id |-> TRUE,
     moz_secret_key |-> TRUE, ahrefs_api_key |-> TRUE,
     majestic_api_key |-> TRUE]
SecondKeys ==
    [NoKeys EXCEPT !.gcs_api_key = TRUE, !.gcs_cx = TRUE,
                   !.moz_access_id = TRUE, !.ahrefs_api_key = TRUE,
                   !.majestic_api_key = TRUE]
ThirdKeys ==
    [NoKeys EXCEPT !.gcs_api_key = TRUE, !.moz_secret_key = TRUE,
                   !.majestic_api_key = TRUE]
Environments == {NoKeys, AllKeys, SecondKeys, ThirdKeys}

\* a mutation of SERPAdapter.__init__: Google Custom Search comes first
SerpBackendGcsFirst(cfg) ==
    IF cfg.gcs_api_key /\ cfg.gcs_cx THEN "gcs"
    ELSE IF cfg.serpapi_key THEN "serpapi"
    ELSE "fallback"

\* SERPAdapter.__init__
SerpBackend(cfg) ==
    IF cfg.serpapi_key THEN "serpapi"
    ELSE IF cfg.gcs_api_key /\ cfg.gcs_cx THEN "gcs"
    ELSE "fallback"

\* AuthorityAdapter.__init__
AuthorityBackend(cfg) ==
    IF cfg.moz_access_id /\ cfg.moz_secret_key THEN "moz"
    ELSE IF cfg.ahrefs_api_key THEN "ahrefs"
    ELSE IF cfg.majestic_api_key THEN "majestic"
    ELSE "fallback"

Adapters == {"PageSpeedAdapter", "SERPAdapter", "WhoisAdapter",
             "AuthorityAdapter"}

\* the arguments of the cache_result decorators
CacheOf(adapter) ==
    CASE adapter = "PageSpeedAdapter" -> "pagespeed"
      [] adapter = "SERPAdapter" -> "serp"
      [] adapter = "WhoisAdapter" -> "whois"
      [] adapter = "AuthorityAdapter" -> "authority"

PrefixOf(adapter) ==
    CASE adapter = "PageSpeedAdapter" -> "psi_"
      [] adapter = "SERPAdapter" -> "serp_"
      [] adapter = "WhoisAdapter" -> "whois_"
      [] adapter = "AuthorityAdapter" -> "auth_"

\* the sites requests ask about, the keyword lists, and the domain ages the
\* evaluator passes on, as str() renders them
Subjects == {"site-a", "site-b"}
KeywordLists == {<<"k1">>, <<"k1", "k2">>}
AgeArgs == {"domain_age_years=None", "domain_age_years=6"}

\* the arguments after self; has_brand_presence is always False, since
\* _check_brand_presence returns False
ArgsFor(adapter) ==
    CASE adapter = "SERPAdapter" ->
            {<<s>> \o kws : s \in Subjects, kws \in KeywordLists}
      [] adapter = "AuthorityAdapter" ->
            {<<s, a, "has_brand_presence=False">> : s \in Subjects,
                                                   a \in AgeArgs}
      [] OTHER -> {<<s>> : s \in Subjects}

\* no adapter class defines __str__ or __repr__: str(self) is the class name
\* and the address of the object
Addrs == {"0x7f01", "0x7f02"}
StrSelf(adapter, addr) == <<adapter, addr>>
ArgsOf(key) == SubSeq(key, 4, Len(key))

\* what a backend can answer, and what a successful answer can hold: the
\* measurement, for PageSpeed the measurement from lab data only, or none
ExtOutcomes == {"ok", "timeout", "http_error", "429", "malformed", "other"}
FallbackOutcomes == {"ok", "timeout", "other"}
Payloads(origin) ==
    IF origin = "pagespeed" THEN {"v1", "lab", "None"} ELSE {"v1", "None"}

\* the pages _gcs_single_keyword asks for: start = 1, 11, 21
GcsPages == 3

\* a measurement of a result: CoreWebVitals, DomainInfo, AuthorityMetrics, or
\* one SERPResult. by is history: the function that built it
Item(value, error, by) ==
    [value |-> value, error |-> error, by |-> by]

NoResult == [items |-> <<>>, is_approximate |-> FALSE, source |-> ""]

Requests == {"request1", "request2"}

\* the fields of IdleTask, and: the adapter object (class, address), the
\* arguments, the cache namespace and key, the keyword and page being asked
\* for, the backend's last answer, the results so far, the value returned and
\* how; prior is history: the cache held a live entry of an identical call
AdapterTask ==
    [pc |-> "idle", origin |-> "", lock |-> "", wake |-> 0, report |-> "none",
     kind |-> "adapter", adapter |-> "", addr |-> "", args |-> <<>>,
     name |-> "", key |-> <<>>, kw |-> 0, page |-> 0, ext |-> "none",
     items |-> <<>>, result |-> NoResult, how |-> "none", prior |-> FALSE]

Keywords(r) == Tail(r.args)

Live(r) == r.kind = "adapter" /\ r.pc \notin {"idle", "done"}

Prior(adapter, args) ==
    \E it \in Range(Namespace(caches, CacheOf(adapter)).items) :
        ArgsOf(it.key) = args /\ clock < it.expires

\* PageSpeedAdapter._fetch_from_api and _parse_response, 429 apart
PsiValue(ext, payload) ==
    [item |-> Item(IF ext = "ok" /\ payload # "None" THEN payload ELSE "None",
                   CASE ext = "ok" /\ payload = "v1" -> "None"
                     [] ext = "ok" /\ payload = "lab" ->
                           "Using Lighthouse lab data"
                     [] ext = "ok" /\ payload = "None" ->
                           "No Chrome user data available"
                     [] ext = "timeout" -> "API request timed out"
                     [] ext = "http_error" -> "API error"
                     [] OTHER -> "Unexpected error",
                   "_fetch_from_api"),
     is_approximate |-> (ext = "ok" /\ payload = "lab"),
     source |-> ""]

\* PageSpeedAdapter._fallback_heuristics
FallbackHeuristics(fext) ==
    [item |-> Item(IF fext = "ok" THEN "estimate" ELSE "None",
                   CASE fext = "ok" -> "Estimated from response timing"
                     [] fext = "timeout" -> "Site unreachable or timeout"
                     [] OTHER -> "Could not analyze site",
                   "_fallback_heuristics"),
     is_approximate |-> TRUE,
     source |-> ""]

\* SERPAdapter._serpapi_single_keyword and _parse_serpapi_response
SerpApiValue(ext, payload) ==
    [item |-> Item(IF ext = "ok" THEN payload ELSE "None",
                   CASE ext = "ok" -> "None"
                     [] ext = "timeout" -> "Timeout"
                     [] OTHER -> "str(e)",
                   "_serpapi_single_keyword"),
     is_approximate |-> FALSE,
     source |-> ""]

\* SERPAdapter._gcs_single_keyword, on the answer that ends its loop
GcsValue(ext, payload) ==
    [item |-> Item(IF ext = "ok" THEN payload ELSE "None",
                   IF ext \in {"ok", "429"} THEN "None" ELSE "str(e)",
                   "_gcs_single_keyword"),
     is_approximate |-> FALSE,
     source |-> ""]

\* SERPAdapter._fallback_results and the summary check_keywords makes of them
FallbackResults(keywords) ==
    [items |-> [i \in DOMAIN keywords |->
                  Item("None", "No SERP API configured", "_fallback_results")],
     is_approximate |-> TRUE,
     source |-> ""]

\* WhoisAdapter._fetch_from_api and _parse_whoisxml_response
WhoisXmlValue(ext, payload) ==
    [item |-> Item(IF ext = "ok" THEN payload ELSE "None",
                   CASE ext = "ok" -> "None"
                     [] ext = "timeout" -> "Timeout"
                     [] OTHER -> "str(e)",
                   "_fetch_from_api"),
     is_approximate |-> FALSE,
     source |-> ""]

\* WhoisAdapter._fallback_whois
FallbackWhois(fext, payload) ==
    [item |-> Item(IF fext = "ok" THEN payload ELSE "None",
                   IF fext = "ok" THEN "None" ELSE "WHOIS lookup failed",
                   "_fallback_whois"),
     is_approximate |-> TRUE,
     source |-> ""]

\* AuthorityAdapter._fetch_from_moz
MozValue(ext, payload) ==
    [item |-> Item(IF ext = "ok" THEN payload ELSE "None",
                   CASE ext = "ok" /\ payload # "None" -> "None"
                     [] ext = "ok" /\ payload = "None" -> "No results from Moz"
                     [] ext = "timeout" -> "Timeout"
                     [] OTHER -> "str(e)",
                   "_fetch_from_moz"),
     is_approximate |-> FALSE,
     source |-> IF ext = "ok" /\ payload = "None" THEN "fallback" ELSE "moz"]

\* AuthorityAdapter._fallback_estimation
FallbackEstimation ==
    [items |-> <<Item("estimate", "None", "_fallback_estimation")>>,
     is_approximate |-> FALSE,
     source |-> "fallback"]

\* the value a method returns: the SERPSummary of the results so far, or the
\* one measurement
ResultOf(r, v) ==
    [items |-> Append(r.items, v.item),
     is_approximate |-> v.is_approximate,
     source |-> v.source]

\* a function that is not rate limited returns v to the public method, which
\* returns it through async_wrapper
PlainReturn(t, r, v) ==
    /\ Store(t, r, GetCache(caches, r.name), ResultOf(r, v))
    /\ UNCHANGED <<rlStates, rlLocks, clean>>

\* a mutation of the rate-limited functions: a failure is raised to the
\* wrapper, which reports it, and the method returns the error result
RateLimitedRaise(t, r, v) ==
    LET st == GetState(rlStates, r.origin)
        reported == [st EXCEPT ![r.origin] =
                        IF v.item.error = "None" THEN ReportSuccess(@)
                        ELSE ReportFailure(@, clock).state]
    IN  /\ clean' = clean \ {r.origin}
        /\ rlStates' = reported
        /\ rlLocks' = rlLocks
        /\ Store(t, [r EXCEPT !.report = "retry"],
                 GetCache(caches, r.name), ResultOf(r, v))

\* with_rate_limit, lines 180-182: the rate-limited function returns v and
\* success is reported; check_keywords goes on to its next keyword, any other
\* method returns
RateLimitedReturn(t, r, v) ==
    LET st == GetState(rlStates, r.origin)
        reported == [st EXCEPT ![r.origin] = ReportSuccess(@)]
    IN  /\ clean' = clean \cup {r.origin}
        /\ IF r.adapter = "SERPAdapter" /\ r.kw < Len(Keywords(r))
           THEN /\ AcquireFrom(t, [r EXCEPT !.items = Append(@, v.item),
                                            !.kw = @ + 1, !.page = 1],
                               reported, rlLocks)
                /\ caches' = caches
           ELSE /\ rlStates' = reported
                /\ rlLocks' = rlLocks
                /\ Store(t, [r EXCEPT !.report = "success"],
                         GetCache(caches, r.name), ResultOf(r, v))

\* the rate-limited function of r is called
RateLimited(t, r, origin, cs) ==
    /\ caches' = cs
    /\ AcquireFrom(t, [r EXCEPT !.origin = origin, !.lock = LockKey(origin),
                                !.kw = 1, !.page = 1],
                   rlStates, rlLocks)

\* a fallback that fetches is called
Fallback(t, r, pc, cs) ==
    /\ caches' = cs
    /\ th' = [th EXCEPT ![t] = [r EXCEPT !.pc = pc]]
    /\ UNCHANGED <<rlStates, rlLocks>>

\* a method that computes its value without waiting returns it
Immediate(t, r, cs, result) ==
    /\ Store(t, r, cs, result)
    /\ UNCHANGED <<rlStates, rlLocks>>

\* get_metrics, check_keywords, get_domain_info, get_authority: the body, up
\* to its first suspension
AdapterBody(t, r, cs) ==
    CASE r.adapter = "PageSpeedAdapter" ->
            IF settings.pagespeed_api_key
            THEN RateLimited(t, r, "pagespeed", cs)
            ELSE Fallback(t, r, "fallback_http", cs)
      [] r.adapter = "SERPAdapter" ->
            IF SerpBackend(settings) = "fallback"
            THEN Immediate(t, r, cs, FallbackResults(Keywords(r)))
            ELSE RateLimited(t, r, SerpBackend(settings), cs)
      [] r.adapter = "WhoisAdapter" ->
            IF settings.whoisxml_api_key
            THEN RateLimited(t, r, "whoisxml", cs)
            ELSE Fallback(t, r, "fallback_io", cs)
      [] r.adapter = "AuthorityAdapter" ->
            IF AuthorityBackend(settings) = "moz"
            THEN RateLimited(t, r, "moz", cs)
            ELSE Immediate(t, r, cs, FallbackEstimation)

(***************************************************************************)
(* Actions of the adapters                                                 *)
(***************************************************************************)
\* a request builds an adapter and calls its public method: async_wrapper
\* looks the call up and, on a miss, starts the method
AdapterCall(t) ==
    /\ th[t].pc = "idle"
    /\ \E adapter \in Adapters, addr \in Addrs, later \in {clock, clock + 1} :
       \E args \in ArgsFor(adapter) :
          /\ \A u \in DOMAIN th : Live(th[u]) => th[u].addr # addr
          /\ LET r == [AdapterTask EXCEPT
                          !.adapter = adapter, !.addr = addr, !.args = args,
                          !.name = CacheOf(adapter),
                          !.key = MakeCacheKey(PrefixOf(adapter),
                                               StrSelf(adapter, addr) \o args),
                          !.prior = Prior(adapter, args)]
             IN  \/ Lookup(t, r, later)
                 \/ Miss(r) /\ AdapterBody(t, r, GetCache(caches, r.name))
    /\ UNCHANGED <<clock, clean, settings, job>>

\* the backend answers the request of a rate-limited function
HttpDone(t) ==
    /\ th[t].pc = "http"
    /\ \E ext \in ExtOutcomes, payload \in Payloads(th[t].origin) :
          LET r == [th[t] EXCEPT !.ext = ext] IN
          CASE r.origin = "pagespeed" ->
                  IF ext = "429"
                  THEN /\ th' = [th EXCEPT ![t] =
                                   [r EXCEPT !.pc = "fallback_http"]]
                       /\ UNCHANGED <<rlStates, rlLocks, clean, caches>>
                  ELSE RateLimitedReturn(t, r, PsiValue(ext, payload))
            [] r.origin = "serpapi" ->
                  RateLimitedReturn(t, r, SerpApiValue(ext, payload))
            [] r.origin = "gcs" ->
                  IF ext = "ok" /\ payload = "None" /\ r.page < GcsPages
                  THEN /\ th' = [th EXCEPT ![t] = [r EXCEPT !.page = @ + 1]]
                       /\ UNCHANGED <<rlStates, rlLocks, clean, caches>>
                  ELSE RateLimitedReturn(t, r, GcsValue(ext, payload))
            [] r.origin = "whoisxml" ->
                  RateLimitedReturn(t, r, WhoisXmlValue(ext, payload))
            [] r.origin = "moz" ->
                  RateLimitedReturn(t, r, MozValue(ext, payload))
    /\ UNCHANGED <<clock, settings, job>>

\* the fetch of a fallback ends
FallbackDone(t) ==
    /\ th[t].pc \in {"fallback_http", "fallback_io"}
    /\ \E fext \in FallbackOutcomes, payload \in {"v1", "None"} :
          LET r == th[t]
              v == IF r.pc = "fallback_http"
                   THEN FallbackHeuristics(fext)
                   ELSE FallbackWhois(fext, payload)
          IN  IF r.origin # ""
              THEN RateLimitedReturn(t, r, v)
              ELSE PlainReturn(t, r, v)
    /\ UNCHANGED <<clock, settings, job>>

Init ==
    /\ clock = StartTime
    /\ th = [t \in Requests |-> AdapterTask]
    /\ rlStates = [o \in {} |-> RateLimitState]
    /\ rlLocks = [k \in {} |-> NoTask]
    /\ clean = {}
    /\ caches = [n \in {} |-> 0]
    /\ settings \in Environments
    /\ job = NoJob

\* time passes while a request sleeps in acquire; the time that passes
\* while none does only dates what is stored
SleepTick ==
    /\ \E t \in DOMAIN th : th[t].pc \in CriticalPcs /\ clock < th[t].wake
    /\ Tick

Next ==
    \/ \E t \in DOMAIN th : AdapterCall(t)
    \/ \E t \in DOMAIN th : LockGranted(t)
    \/ \E t \in DOMAIN th : WakeInterval(t)
    \/ \E t \in DOMAIN th : HttpDone(t)
    \/ \E t \in DOMAIN th : FallbackDone(t)
    \/ SleepTick

Spec == Init /\ [][Next]_vars

(***************************************************************************)
(* Properties of the adapters                                              *)
(***************************************************************************)
\* the measurements a request holds: those of the value it returned, or
\* those its method has collected so far
ItemsOf(r) == IF r.pc = "done" THEN r.result.items ELSE r.items

Failures == ExtOutcomes \ {"ok"}

FallbackBuilders == {"_fallback_heuristics", "_fallback_results",
                     "_fallback_whois", "_fallback_estimation"}

\* the backend's last answer to request t went into the last measurement
Answered(t) ==
    /\ th[t].kind = "adapter"
    /\ th[t].how # "hit"
    /\ th[t].pc \in {"done"} \cup AcquirePcs
    /\ th[t].ext # "none"
    /\ ItemsOf(th[t]) # <<>>

LastItem(r) == ItemsOf(r)[Len(ItemsOf(r))]

\* C6: a call identical to one whose value the cache still holds is served
\* from the cache, whichever adapter object makes it: it returns the stored
\* value and does not run the fetch.
C6_IdenticalCallServed ==
    \A t \in DOMAIN th :
        (th[t].kind = "adapter" /\ th[t].prior)
            => /\ th[t].how = "hit"
               /\ \E it \in Range(Namespace(caches, th[t].name).items) :
                     ArgsOf(it.key) = th[t].args /\ it.value = th[t].result

\* C9: every fetch of an adapter returns a value whatever the backend
\* answers: no exception leaves the adapter, and a failure of the backend
\* shows as an error note on the measurement.
C9_FailureIsNoted ==
    \A t \in DOMAIN th :
        /\ th[t].how # "KeyError"
        /\ (Answered(t) /\ th[t].ext \in Failures)
              => LastItem(th[t]).error # "None"

\* C10: when the backend answers 429 the call returns what the fallback
\* heuristic returns, and the origin's consecutive_failures stays as it was.
C10_FallbackOn429 ==
    \A t \in DOMAIN th :
        (Answered(t) /\ th[t].ext = "429")
            => /\ LastItem(th[t]).by \in FallbackBuilders
               /\ rlStates[th[t].origin].consecutive_failures = 0

(***************************************************************************)
(* Scoring: utils/rounding.py, evaluators/declared_evaluator.py,           *)
(* evaluators/observed_evaluator.py, evaluators/scoring.py and the         *)
(* subscore functions of the adapters.                                     *)
(*                                                                         *)
(* These are functions of their arguments.  job is the call in progress:   *)
(* the function, its arguments and, once it has returned, its value.       *)
(* A float is the exact fraction <<n, d>>, d > 0, and an Optional is the   *)
(* set of its values: {} is None.                                          *)
(***************************************************************************)
None == {}
Some(x) == {x}
The(o) == CHOOSE x \in o : TRUE

Frac(n, d) == <<n, d>>
Leq(a, b) == a[1] * b[2] <= b[1] * a[2]
Less(a, b) == a[1] * b[2] < b[1] * a[2]
Zero == Frac(0, 1)
One == Frac(1, 1)
InUnit(a) == Leq(Zero, a) /\ Leq(a, One)
\* a times the integer k
Times(a, k) == Frac(a[1] * k, a[2])

RECURSIVE Sum(_)
Sum(s) == IF s = <<>> THEN 0 ELSE Head(s) + Sum(Tail(s))

\* the integer below a fraction; a mutation of round_half_up
RoundDown(a) == a[1] \div a[2]

\* round_half_up(value): Decimal.quantize with ROUND_HALF_UP, which rounds a
\* tie away from zero
RoundHalfUp(a) ==
    IF a[1] >= 0 THEN (2 * a[1] + a[2]) \div (2 * a[2])
    ELSE -((2 * (-a[1]) + a[2]) \div (2 * a[2]))

MaxPerAnswer == 5

\* compute_dimension_score(answers, weight)
ComputeDimensionScore(answers, weight) ==
    IF answers = <<>> THEN 0
    ELSE IF MaxPerAnswer * Len(answers) = 0 THEN 0
    ELSE Min2(RoundHalfUp(Times(Frac(Sum(answers),
                                     MaxPerAnswer * Len(answers)), weight)),
              weight)

\* compute_observed_bucket_score(subscore, weight)
ComputeObservedBucketScore(subscore, weight) ==
    LET low == IF Less(One, subscore) THEN One ELSE subscore
        clamped == IF Less(low, Zero) THEN Zero ELSE low
    IN  Min2(RoundHalfUp(Times(clamped, weight)), weight)

\* a mutation of compute_stage: each stage ends one point earlier
ComputeStageEarly(total_score) ==
    IF total_score < 30 THEN "Chaotic"
    ELSE IF total_score < 50 THEN "Reactive"
    ELSE IF total_score < 70 THEN "Structured"
    ELSE IF total_score < 85 THEN "Optimised"
    ELSE "Strategic"

\* compute_stage(total_score)
ComputeStage(total_score) ==
    IF total_score <= 30 THEN "Chaotic"
    ELSE IF total_score <= 50 THEN "Reactive"
    ELSE IF total_score <= 70 THEN "Structured"
    ELSE IF total_score <= 85 THEN "Optimised"
    ELSE "Strategic"

\* a mutation of abs
Signed(x) == x
\* abs(diff)
Abs(x) == IF x < 0 THEN -x ELSE x

\* compute_gap_description(questionnaire_score, observed_score): the string
\* is severity, " — ", explanation
ComputeGapDescription(questionnaire_score, observed_score) ==
    LET diff == questionnaire_score - observed_score
        abs_diff == Abs(diff)
    IN  IF abs_diff <= 3
        THEN <<"Minimal",
               "declared and observed capabilities are well-aligned">>
        ELSE IF abs_diff <= 10
        THEN <<"Moderate",
               IF diff > 0
               THEN "declared capability somewhat exceeds observable execution"
               ELSE "observable execution somewhat stronger than declared capability">>
        ELSE <<"High",
               IF diff > 0
               THEN "declared capability significantly exceeds observable execution"
               ELSE "observable execution significantly stronger than declared capability">>

\* models/enums.py
TechnicalQuestions == <<"T1", "T2", "T3", "T4">>
ContentQuestions == <<"C1", "C2", "C3", "C4">>
MeasurementQuestions == <<"M1", "M2">>
\* a mutation of DECLARED_WEIGHTS
DeclaredWeightsSwapped ==
    [technical |-> 10, content_keywords |-> 20, measurement |-> 20]
DeclaredWeights ==
    [technical |-> 20, content_keywords |-> 20, measurement |-> 10]
ObservedWeights ==
    [core_web_vitals |-> 20, onpage |-> 15, authority_proxies |-> 10,
     serp_reality |-> 5]

\* DeclaredEvaluator._get_dimension_answers
GetDimensionAnswers(answers, question_ids) ==
    [i \in DOMAIN question_ids |-> answers[question_ids[i]]]

\* DeclaredEvaluator.evaluate
DeclaredEvaluate(answers) ==
    LET technical_score ==
            ComputeDimensionScore(
                GetDimensionAnswers(answers, TechnicalQuestions),
                DeclaredWeights.technical)
        content_score ==
            ComputeDimensionScore(
                GetDimensionAnswers(answers, ContentQuestions),
                DeclaredWeights.content_keywords)
        measurement_score ==
            ComputeDimensionScore(
                GetDimensionAnswers(answers, MeasurementQuestions),
                DeclaredWeights.measurement)
    IN  [technical |-> technical_score,
         content_keywords |-> content_score,
         measurement |-> measurement_score,
         total |-> technical_score + content_score + measurement_score]

\* Python's truth value of an Optional[str]
Truthy(o) == o # None /\ The(o) # ""

\* CoreWebVitals, with the defaults of the dataclass
CoreWebVitals ==
    [lcp_ms |-> None, cls |-> None, inp_ms |-> None,
     is_approximate |-> FALSE, error |-> None]

\* a mutation of compute_cwv_subscore: INP is not looked at
ComputeCwvSubscoreOfTwo(metrics) ==
    IF metrics.lcp_ms = None THEN Zero
    ELSE LET lcp == IF The(metrics.lcp_ms) <= 2500 THEN 1 ELSE 0
             cls == IF metrics.cls # None /\ Leq(The(metrics.cls), Frac(1, 10))
                    THEN 1 ELSE 0
         IN  Frac(lcp + cls + 1, 4)

\* compute_cwv_subscore(metrics)
ComputeCwvSubscore(metrics) ==
    IF metrics.lcp_ms = None THEN Zero
    ELSE LET lcp == IF metrics.lcp_ms # None /\ The(metrics.lcp_ms) <= 2500
                    THEN 1 ELSE 0
             cls == IF metrics.cls # None /\ Leq(The(metrics.cls), Frac(1, 10))
                    THEN 1 ELSE 0
             inp == IF metrics.inp_ms # None /\ The(metrics.inp_ms) <= 200
                    THEN 1 ELSE 0
             passing == lcp + cls + inp
         IN  CASE passing = 3 -> Frac(1, 1)
               [] passing = 2 -> Frac(3, 4)
               [] passing = 1 -> Frac(1, 2)
               [] OTHER -> Frac(1, 4)

\* SERPResult and SERPSummary, with the defaults of the dataclasses
SERPResult(keyword) ==
    [keyword |-> keyword, rank |-> None, is_top10 |-> FALSE,
     is_top30 |-> FALSE, error |-> None]
SERPSummary(results) ==
    [results |-> results, hits_top10 |-> 0, hits_top30 |-> 0,
     is_approximate |-> FALSE]

\* the loop of compute_serp_subscore, in half points
RECURSIVE TotalPoints(_)
TotalPoints(results) ==
    IF results = <<>> THEN 0
    ELSE (IF Head(results).is_top10 THEN 2
          ELSE IF Head(results).is_top30 THEN 1
          ELSE 0) + TotalPoints(Tail(results))

\* a mutation of compute_serp_subscore: the points are divided by the number
\* of keywords that were found
SerpSubscoreOfFound(summary, num_keywords) ==
    LET found == Cardinality({i \in DOMAIN summary.results :
                                summary.results[i].rank # None})
    IN  IF num_keywords = 0 \/ found = 0 THEN Zero
        ELSE Frac(TotalPoints(summary.results), 2 * found)

\* compute_serp_subscore(summary, num_keywords)
ComputeSerpSubscore(summary, num_keywords) ==
    IF num_keywords = 0 THEN Zero
    ELSE LET subscore == Frac(TotalPoints(summary.results), 2 * num_keywords)
             low == IF Less(One, subscore) THEN One ELSE subscore
         IN  IF Less(low, Zero) THEN Zero ELSE low

\* AuthorityMetrics, with the defaults of the dataclass
AuthorityMetrics ==
    [domain_authority |-> None, referring_domains |-> None,
     source |-> "fallback", error |-> None]

\* the lower of a fraction and 1.0
Min1(a) == IF Less(One, a) THEN One ELSE a

\* the fraction compute_authority_subscore makes of the API's score
NormalizeDA(da) == Min1(Frac(da, 100))

\* compute_authority_subscore(metrics, domain_age_years, has_brand_presence),
\* the sums in tenths
ComputeAuthoritySubscore(metrics, domain_age_years, has_brand_presence) ==
    IF Truthy(metrics.error) /\ metrics.domain_authority = None
    THEN Min1(Frac((IF domain_age_years # None /\ The(domain_age_years) >= 5
                    THEN 4
                    ELSE IF domain_age_years # None
                            /\ The(domain_age_years) >= 1
                    THEN 2 ELSE 0)
                   + (IF has_brand_presence THEN 2 ELSE 0), 10))
    ELSE IF metrics.domain_authority # None
    THEN NormalizeDA(The(metrics.domain_authority))
    ELSE Min1(Frac((IF domain_age_years # None /\ The(domain_age_years) >= 5
                    THEN 4 ELSE 0)
                   + (IF metrics.referring_domains # None
                         /\ The(metrics.referring_domains) > 5
                      THEN 4 ELSE 0)
                   + (IF has_brand_presence THEN 2 ELSE 0), 10))

\* OnPageMetrics, with the defaults of the dataclass; the scores in
\* hundredths
OnPageMetrics ==
    [title_present |-> FALSE, title_length |-> 0, title_quality_score |-> 0,
     meta_present |-> FALSE, meta_unique |-> FALSE, meta_quality_score |-> 0,
     h1_present |-> FALSE, h1_relevance_score |-> 67,
     canonical_present |-> FALSE, bot_blocked |-> FALSE, error |-> None]

\* ObservedEvaluator._parse_onpage_html on a page that parses: the page is
\* the length of its title text, whether it has a meta description with
\* content, that content's length and whether it holds a placeholder
\* pattern, whether it has an H1 with text and a canonical link with href
ParseOnpageHtml(page) ==
    LET title_present == page.title_length > 0
        title_quality ==
            IF ~title_present THEN 0
            ELSE IF 30 <= page.title_length /\ page.title_length <= 60 THEN 100
            ELSE IF 20 <= page.title_length /\ page.title_length <= 70 THEN 66
            ELSE 33
        meta_length == IF page.meta_present THEN page.meta_length ELSE 0
        meta_unique == page.meta_present /\ meta_length > 50
                       /\ ~page.meta_generic
        meta_quality ==
            IF ~page.meta_present THEN 0
            ELSE IF meta_unique /\ 100 <= meta_length /\ meta_length <= 160
            THEN 100
            ELSE IF 50 <= meta_length /\ meta_length <= 200 THEN 66
            ELSE 33
    IN  [OnPageMetrics EXCEPT
            !.title_present = title_present,
            !.title_length = page.title_length,
            !.title_quality_score = title_quality,
            !.meta_present = page.meta_present,
            !.meta_unique = meta_unique,
            !.meta_quality_score = meta_quality,
            !.h1_present = page.h1_present,
            !.h1_relevance_score = IF page.h1_present THEN 100 ELSE 0,
            !.canonical_present = page.canonical_present]

\* ObservedEvaluator._analyze_onpage: fetch is what client.get does, the
\* status and page of a response, a timeout, or another exception with its
\* message
AnalyzeOnpage(fetch) ==
    CASE fetch.outcome = "timeout" ->
            [OnPageMetrics EXCEPT !.error = Some("Timeout fetching page")]
      [] fetch.outcome = "exception" ->
            [OnPageMetrics EXCEPT !.error = Some(fetch.message)]
      [] fetch.outcome = "response" /\ fetch.status_code = "403" ->
            [OnPageMetrics EXCEPT
                !.bot_blocked = TRUE,
                !.title_quality_score = 50,
                !.meta_quality_score = 50,
                !.h1_relevance_score = 50,
                !.error = Some("Site restricts automated access")]
      [] fetch.outcome = "response" /\ fetch.status_code # "200" ->
            [OnPageMetrics EXCEPT !.error = Some("HTTP " \o fetch.status_code)]
      [] OTHER ->
            IF fetch.parses THEN ParseOnpageHtml(fetch.page)
            ELSE [OnPageMetrics EXCEPT !.error = Some(fetch.message)]

\* ObservedEvaluator._compute_onpage_subscore(metrics)
ComputeOnpageSubscore(metrics) ==
    IF Truthy(metrics.error) THEN Zero
    ELSE Frac(metrics.title_quality_score + metrics.meta_quality_score
              + metrics.h1_relevance_score, 300)

\* a mutation of compute_final_score: the declared total is left out
FinalScoreOfObserved(declared, observed) == observed.total

\* compute_final_score(declared, observed)
ComputeFinalScore(declared, observed) ==
    LET total == declared.total + observed.total
        low == IF 100 < total THEN 100 ELSE total
    IN  IF low < 0 THEN 0 ELSE low

\* a candidate of identify_top_risks: the ratio it is ranked by and its
\* message, which is written as the words it opens with.  main.py calls generate_grader_response
\* without a website_url, so that domain is the empty string in every message
Risk(ratio, head) == [ratio |-> ratio, head |-> head]

\* the messages whose text holds "Web Vitals", and those whose lower-cased
\* text holds "on-page"
HoldsWebVitals ==
    {"CRITICAL PERFORMANCE COLLAPSE", "TECHNICAL DECAY",
     "UNSTABLE PERFORMANCE", "MONITORING ADVISED"}
HoldsOnPage == {"SIGNAL MISALIGNMENT", "OPTIMIZATION OPPORTUNITY"}

\* list.sort(key=ratio), which is stable: x goes behind the entries that are
\* not above it
RECURSIVE InsertByRatio(_, _)
InsertByRatio(sorted, x) ==
    IF sorted = <<>> THEN <<x>>
    ELSE IF Less(x.ratio, Head(sorted).ratio) THEN <<x>> \o sorted
    ELSE <<Head(sorted)>> \o InsertByRatio(Tail(sorted), x)
RECURSIVE SortByRatio(_)
SortByRatio(s) ==
    IF s = <<>> THEN <<>>
    ELSE InsertByRatio(SortByRatio(SubSeq(s, 1, Len(s) - 1)), s[Len(s)])

\* the first n entries of a list
Take(s, n) == SubSeq(s, 1, Min2(n, Len(s)))

\* a mutation of the loop that fills the list: one message, whatever the
\* list holds
FillOnce(risks, cwv_ratio, onpage_ratio) ==
    IF Len(risks) >= 3 THEN risks
    ELSE Append(risks, "CONTINUOUS IMPROVEMENT")

\* the loop that fills the list up, lines 157-164
RECURSIVE FillRisks(_, _, _)
FillRisks(risks, cwv_ratio, onpage_ratio) ==
    IF Len(risks) >= 3 THEN risks
    ELSE IF /\ Leq(Frac(8, 10), cwv_ratio)
            /\ \A i \in DOMAIN risks : risks[i] \notin HoldsWebVitals
    THEN FillRisks(Append(risks, "MONITORING ADVISED"),
                   cwv_ratio, onpage_ratio)
    ELSE IF /\ Leq(Frac(75, 100), onpage_ratio)
            /\ \A i \in DOMAIN risks : risks[i] \notin HoldsOnPage
    THEN FillRisks(Append(risks, "OPTIMIZATION OPPORTUNITY"),
                   cwv_ratio, onpage_ratio)
    ELSE Append(risks, "CONTINUOUS IMPROVEMENT")

\* identify_top_risks(declared, observed)
IdentifyTopRisks(declared, observed) ==
    LET cwv_ratio == Frac(observed.core_web_vitals, 20)
        onpage_ratio == Frac(observed.onpage, 15)
        authority_ratio == Frac(observed.authority_proxies, 10)
        serp_ratio == Frac(observed.serp_reality, 5)
        gap == declared.total - observed.total
        cwv ==
            IF Less(cwv_ratio, Frac(4, 10))
            THEN <<Risk(cwv_ratio, "CRITICAL PERFORMANCE COLLAPSE")>>
            ELSE IF Less(cwv_ratio, Frac(6, 10))
            THEN <<Risk(cwv_ratio, "TECHNICAL DECAY")>>
            ELSE IF Less(cwv_ratio, Frac(8, 10))
            THEN <<Risk(cwv_ratio, "UNSTABLE PERFORMANCE")>>
            ELSE <<>>
        onpage ==
            IF Less(onpage_ratio, Frac(5, 10))
            THEN <<Risk(onpage_ratio, "STRUCTURAL CATASTROPHE")>>
            ELSE IF Less(onpage_ratio, Frac(75, 100))
            THEN <<Risk(onpage_ratio, "SIGNAL MISALIGNMENT")>>
            ELSE <<>>
        authority ==
            IF Less(authority_ratio, Frac(5, 10))
            THEN <<Risk(authority_ratio, "AUTHORITY VOID")>>
            ELSE IF Less(authority_ratio, Frac(75, 100))
            THEN <<Risk(authority_ratio, "AUTHORITY DEFICIT")>>
            ELSE <<>>
        serp ==
            IF Less(serp_ratio, Frac(5, 10))
            THEN <<Risk(serp_ratio, "ORGANIC OBSOLESCENCE")>>
            ELSE IF Less(serp_ratio, Frac(75, 100))
            THEN <<Risk(serp_ratio, "FRAGMENTED VISIBILITY")>>
            ELSE <<>>
        mismatch ==
            IF gap > 10 THEN <<Risk(Zero, "CAPABILITY HALLUCINATION")>>
            ELSE IF gap < -10 THEN <<Risk(Zero, "UNDERUTILIZED ENGINE")>>
            ELSE <<>>
        risk_candidates == cwv \o onpage \o authority \o serp \o mismatch
        sorted == SortByRatio(risk_candidates)
        risks == Take([i \in DOMAIN sorted |-> sorted[i].head], 3)
    IN  Take(FillRisks(risks, cwv_ratio, onpage_ratio), 3)

(***************************************************************************)
(* The scoring functions, each applied to the arguments it can be given    *)
(***************************************************************************)
SubscoreSpan == 10     \* subscores run from -SubscoreSpan to SubscoreSpan
SubscoreGrid == 100    \* in steps of 1/SubscoreGrid

Call(fn, args) == [fn |-> fn, pc |-> "called", args |-> args, ret |-> "pending"]

\* job is a call of compute_observed_bucket_score with a weight of
\* OBSERVED_WEIGHTS
BucketCall ==
    \E k \in (-SubscoreSpan * SubscoreGrid)..(SubscoreSpan * SubscoreGrid),
       w \in Range(ObservedWeights) :
        job = Call("compute_observed_bucket_score",
                   <<Frac(k, SubscoreGrid), w>>)

\* QuestionnaireAnswers: each answer is ge=1, le=5
AnswerValues == 1..5
AnswerLists == {<<>>} \cup [1..2 -> AnswerValues] \cup [1..4 -> AnswerValues]
DimensionCall ==
    \E a \in AnswerLists, w \in Range(DeclaredWeights) :
        job = Call("compute_dimension_score", <<a, w>>)

Sheet(t, c, m) ==
    [T1 |-> t[1], T2 |-> t[2], T3 |-> t[3], T4 |-> t[4],
     C1 |-> c[1], C2 |-> c[2], C3 |-> c[3], C4 |-> c[4],
     M1 |-> m[1], M2 |-> m[2]]
\* the questionnaires: every answer to the questions of one dimension, with
\* the lowest, the highest and two mixed answers to the others
SomeFour == {<<1, 1, 1, 1>>, <<5, 5, 5, 5>>, <<4, 3, 5, 3>>, <<4, 3, 2, 3>>}
SomeTwo == {<<1, 1>>, <<5, 5>>, <<2, 3>>}
EvaluateCall ==
    \/ \E t \in [1..4 -> AnswerValues], c \in SomeFour, m \in SomeTwo :
          job = Call("DeclaredEvaluator.evaluate", <<Sheet(t, c, m)>>)
    \/ \E t \in SomeFour, c \in [1..4 -> AnswerValues], m \in SomeTwo :
          job = Call("DeclaredEvaluator.evaluate", <<Sheet(t, c, m)>>)
    \/ \E t \in SomeFour, c \in SomeFour, m \in [1..2 -> AnswerValues] :
          job = Call("DeclaredEvaluator.evaluate", <<Sheet(t, c, m)>>)

StageCall == \E n \in 0..100 : job = Call("compute_stage", <<n>>)
GapCall ==
    \E q \in 0..50, o \in 0..50 :
        job = Call("compute_gap_description", <<q, o>>)

\* the measurements on and around the thresholds, and none
LcpValues == {None, Some(0), Some(2500), Some(2501), Some(4000)}
ClsValues == {None, Some(Frac(0, 1000)), Some(Frac(100, 1000)),
              Some(Frac(101, 1000)), Some(Frac(250, 1000))}
InpValues == {None, Some(0), Some(200), Some(201), Some(500)}
CwvCall ==
    \E l \in LcpValues, c \in ClsValues, i \in InpValues, a \in BOOLEAN,
       e \in {None, Some("Estimated from response timing")} :
        job = Call("compute_cwv_subscore",
                   <<[CoreWebVitals EXCEPT !.lcp_ms = l, !.cls = c,
                                           !.inp_ms = i, !.is_approximate = a,
                                           !.error = e]>>)

\* target_keywords holds at most 5 keywords
MaxKeywords == 5
\* what a lookup finds for a keyword: no rank, or a rank in the top 10, in
\* the top 30 or below
Ranks == {None, Some(10), Some(11), Some(31)}
Ranked(keyword, rank) ==
    [SERPResult(keyword) EXCEPT
        !.rank = rank,
        !.is_top10 = (rank # None /\ The(rank) <= 10),
        !.is_top30 = (rank # None /\ The(rank) <= 30)]
\* the summary check_keywords makes of the results
Summary(results, is_approximate) ==
    [SERPSummary(results) EXCEPT
        !.hits_top10 = Cardinality({i \in DOMAIN results : results[i].is_top10}),
        !.hits_top30 = Cardinality({i \in DOMAIN results : results[i].is_top30}),
        !.is_approximate = is_approximate]
SerpCall ==
    \E n \in 0..MaxKeywords : \E r \in [1..n -> Ranks] :
        job = Call("compute_serp_subscore",
                   <<Summary([i \in 1..n |-> Ranked(i, r[i])], FALSE), n>>)

\* a lookup that failed: no rank and an error
Failed(keyword, error) == [SERPResult(keyword) EXCEPT !.error = Some(error)]
\* the summary of check_keywords when the backend is the fallback
SerpFallbackCall ==
    \E n \in 1..MaxKeywords :
        job = Call("compute_serp_subscore",
                   <<Summary([i \in 1..n |->
                                Failed(i, FallbackResults([k \in 1..n |-> k])
                                            .items[i].error)],
                             TRUE), n>>)
\* summaries that hold lookups that failed, and counts of keywords that are
\* not the number of results
SerpCountCall ==
    \E len \in 0..3, n \in 0..MaxKeywords :
    \E r \in [1..len -> Ranks], failed \in [1..len -> BOOLEAN] :
        job = Call("compute_serp_subscore",
                   <<Summary([i \in 1..len |->
                                IF r[i] = None /\ failed[i]
                                THEN Failed(i, "Timeout")
                                ELSE Ranked(i, r[i])], FALSE), n>>)

\* the scores a backend answers with: the API's value is taken as it comes
ApiScores == {-5, 0, 35, 100, 150}
Ages == {None, Some(0), Some(1), Some(3), Some(5)}
AuthorityResults ==
    {[AuthorityMetrics EXCEPT !.domain_authority = Some(da),
                              !.referring_domains = Some(refs),
                              !.source = "moz"] :
        da \in ApiScores, refs \in {0, 6}}
    \cup {[AuthorityMetrics EXCEPT !.error = Some("No results from Moz")],
          [AuthorityMetrics EXCEPT !.source = "moz", !.error = Some("Timeout")],
          [AuthorityMetrics EXCEPT !.referring_domains = Some(6)]}
AuthorityCall ==
    \E m \in AuthorityResults, age \in Ages, brand \in BOOLEAN :
        job = Call("compute_authority_subscore", <<m, age, brand>>)

\* the pages: title texts, meta descriptions and H1s on and around the
\* lengths _parse_onpage_html tells apart
TitleLengths == {0, 19, 20, 30, 60, 61, 70, 71}
MetaLengths == {50, 51, 100, 160, 200, 201}
Pages ==
    {[title_length |-> t, meta_present |-> mp, meta_length |-> ml,
      meta_generic |-> mg, h1_present |-> h, canonical_present |-> c] :
        t \in TitleLengths, mp \in BOOLEAN, ml \in MetaLengths,
        mg \in BOOLEAN, h \in BOOLEAN, c \in BOOLEAN}
NoPage ==
    [title_length |-> 0, meta_present |-> FALSE, meta_length |-> 50,
     meta_generic |-> FALSE, h1_present |-> FALSE, canonical_present |-> FALSE]
Fetched(outcome, status_code, parses, message, page) ==
    [outcome |-> outcome, status_code |-> status_code, parses |-> parses,
     message |-> message, page |-> page]
\* what client.get can do: answer with a page, or with another status, or
\* time out, or raise; and a page may fail to parse
Fetches ==
    {Fetched("response", "200", TRUE, "", p) : p \in Pages}
    \cup {Fetched("response", s, TRUE, "", NoPage) :
            s \in {"403", "404", "429", "500", "503"}}
    \cup {Fetched("response", "200", FALSE, m, NoPage) :
            m \in {"", "lxml not found"}}
    \cup {Fetched("timeout", "", TRUE, "", NoPage)}
    \cup {Fetched("exception", "", TRUE, m, NoPage) :
            m \in {"", "Connection refused"}}
OnpageCall ==
    \E f \in Fetches :
        \/ job = Call("_analyze_onpage", <<f>>)
        \/ job = Call("_compute_onpage_subscore", <<AnalyzeOnpage(f)>>)

\* the bucket scores, with the declared totals on and around the gaps that
\* identify_top_risks tells apart
Gaps == {-11, -10, 0, 10, 11}
ObservedScores(c, o, a, s) ==
    [core_web_vitals |-> c, onpage |-> o, authority_proxies |-> a,
     serp_reality |-> s, total |-> c + o + a + s]
RiskCall ==
    \E c \in 0..ObservedWeights.core_web_vitals,
       o \in 0..ObservedWeights.onpage,
       a \in 0..ObservedWeights.authority_proxies,
       s \in 0..ObservedWeights.serp_reality, g \in Gaps :
        /\ c + o + a + s + g \in 0..50
        /\ job = Call("identify_top_risks",
                      <<[total |-> c + o + a + s + g],
                        ObservedScores(c, o, a, s)>>)

\* the function returns
Returns(fn, value) ==
    /\ job.fn = fn
    /\ job.pc = "called"
    /\ job' = [job EXCEPT !.pc = "returned", !.ret = value]
    /\ UNCHANGED <<clock, th, rlStates, rlLocks, clean, caches, settings>>

RoundingReturn ==
    \/ Returns("compute_observed_bucket_score",
               ComputeObservedBucketScore(job.args[1], job.args[2]))
    \/ Returns("compute_dimension_score",
               ComputeDimensionScore(job.args[1], job.args[2]))
    \/ Returns("compute_stage", ComputeStage(job.args[1]))
    \/ Returns("compute_gap_description",
               ComputeGapDescription(job.args[1], job.args[2]))

DeclaredReturn ==
    Returns("DeclaredEvaluator.evaluate", DeclaredEvaluate(job.args[1]))

SubscoreReturn ==
    \/ Returns("compute_cwv_subscore", ComputeCwvSubscore(job.args[1]))
    \/ Returns("compute_serp_subscore",
               ComputeSerpSubscore(job.args[1], job.args[2]))
    \/ Returns("compute_authority_subscore",
               ComputeAuthoritySubscore(job.args[1], job.args[2], job.args[3]))
    \/ Returns("_analyze_onpage", AnalyzeOnpage(job.args[1]))
    \/ Returns("_compute_onpage_subscore", ComputeOnpageSubscore(job.args[1]))

RisksReturn ==
    Returns("identify_top_risks", IdentifyTopRisks(job.args[1], job.args[2]))

InitScore ==
    /\ clock = StartTime
    /\ th = [t \in {} |-> IdleTask]
    /\ rlStates = [o \in {} |-> RateLimitState]
    /\ rlLocks = [k \in {} |-> NoTask]
    /\ clean = {}
    /\ caches = [n \in {} |-> 0]
    /\ settings = NoKeys
    /\ \/ BucketCall
       \/ DimensionCall
       \/ StageCall
       \/ GapCall
       \/ EvaluateCall
       \/ CwvCall
       \/ SerpCall
       \/ SerpFallbackCall
       \/ SerpCountCall
       \/ AuthorityCall
       \/ OnpageCall
       \/ RiskCall

NextScore ==
    \/ RoundingReturn
    \/ DeclaredReturn
    \/ SubscoreReturn
    \/ RisksReturn

SpecScore == InitScore /\ [][NextScore]_vars

HasReturned(fn) == job.fn = fn /\ job.pc = "returned"

(***************************************************************************)
(* Properties of the scoring functions                                     *)
(***************************************************************************)
Same(a, b) == Leq(a, b) /\ Leq(b, a)

\* v is the integer nearest to sum * weight / (max * n), the upper one of two
Nearest(v, sum, weight, n) ==
    /\ 2 * v * MaxPerAnswer * n - MaxPerAnswer * n <= 2 * sum * weight
    /\ 2 * sum * weight < 2 * v * MaxPerAnswer * n + MaxPerAnswer * n

HttpErrors == {Some("HTTP 404"), Some("HTTP 429"), Some("HTTP 500"),
               Some("HTTP 503")}

\* C12: a fetch that is answered 403 gives a bot_blocked result whose title,
\* meta and H1 quality are 0.5, and the on-page subscore of that result is
\* the neutral 0.5; any other status that is not 200, and a timeout, give a
\* result with an error whose subscore is 0.
C12_BotBlockedIsNeutral ==
    /\ HasReturned("_analyze_onpage")
          => LET f == job.args[1]
             IN  /\ (f.outcome = "response" /\ f.status_code = "403")
                       => /\ job.ret.bot_blocked
                          /\ job.ret.title_quality_score = 50
                          /\ job.ret.meta_quality_score = 50
                          /\ job.ret.h1_relevance_score = 50
                 /\ (f.outcome = "response"
                        /\ f.status_code \notin {"200", "403"})
                       => job.ret.error \in HttpErrors
                 /\ f.outcome = "timeout" => Truthy(job.ret.error)
    /\ HasReturned("_compute_onpage_subscore")
          => LET m == job.args[1]
             IN  /\ m.bot_blocked => Same(job.ret, Frac(1, 2))
                 /\ m.error \in HttpErrors \cup {Some("Timeout fetching page")}
                       => Same(job.ret, Zero)

SubscoreFunctions ==
    {"compute_cwv_subscore", "compute_serp_subscore",
     "compute_authority_subscore", "_compute_onpage_subscore"}

\* C13: each of the four subscore functions returns a value from 0 to 1 for
\* every metric an adapter can produce, a metric with an error and no data
\* and an authority score outside 0..100 included.
C13_SubscoresInUnit ==
    (job.fn \in SubscoreFunctions /\ job.pc = "returned") => InUnit(job.ret)

\* C14: compute_observed_bucket_score(s, w) is the integer nearest to
\* clamp(s, 0, 1) * w, the upper one of two (0.5 with 15 gives 8): it lies
\* in 0..w, does not fall when s rises, is 0 for s <= 0 and w for s >= 1.
C14_BucketScore ==
    HasReturned("compute_observed_bucket_score")
        => LET s == job.args[1]
               w == job.args[2]
           IN  /\ job.ret \in 0..w
               /\ Leq(s, Zero) => job.ret = 0
               /\ Leq(One, s) => job.ret = w
               /\ InUnit(s)
                     => /\ 2 * job.ret * s[2] - s[2] <= 2 * s[1] * w
                        /\ 2 * s[1] * w < 2 * job.ret * s[2] + s[2]
               /\ ComputeObservedBucketScore(Frac(s[1] - 1, s[2]), w)
                     <= job.ret
               /\ (Same(s, Frac(1, 2)) /\ w = 15) => job.ret = 8

C14_Witness ==
    /\ HasReturned("compute_observed_bucket_score")
    /\ Same(job.args[1], Frac(1, 2))
    /\ job.args[2] = 15
    /\ job.ret = 8

AllAnswers(sheet, v) == \A q \in DOMAIN sheet : sheet[q] = v

\* C16: DeclaredEvaluator.evaluate scores T1-T4, C1-C4 and M1-M2 each as
\* min(weight, the integer nearest to sum/(5n)*weight, the upper one of two),
\* with the weights 20, 20 and 10: each dimension lies in 0..weight, the
\* total is their sum and lies in 10..50 (10 for all 1s, 50 for all 5s), the
\* answers 4,3,5,3 / 4,3,2,3 / 2,3 score 15 + 12 + 5 = 32; and
\* compute_dimension_score scores an empty list 0.
C16_DeclaredScores ==
    /\ HasReturned("DeclaredEvaluator.evaluate")
          => LET a == job.args[1]
                 r == job.ret
             IN  /\ \E v \in 0..20 :
                       /\ Nearest(v, a.T1 + a.T2 + a.T3 + a.T4, 20, 4)
                       /\ r.technical = Min2(20, v)
                 /\ \E v \in 0..20 :
                       /\ Nearest(v, a.C1 + a.C2 + a.C3 + a.C4, 20, 4)
                       /\ r.content_keywords = Min2(20, v)
                 /\ \E v \in 0..10 :
                       /\ Nearest(v, a.M1 + a.M2, 10, 2)
                       /\ r.measurement = Min2(10, v)
                 /\ r.technical \in 0..20
                 /\ r.content_keywords \in 0..20
                 /\ r.measurement \in 0..10
                 /\ r.total = r.technical + r.content_keywords + r.measurement
                 /\ r.total \in 10..50
                 /\ AllAnswers(a, 1) => r.total = 10
                 /\ AllAnswers(a, 5) => r.total = 50
                 /\ a = Sheet(<<4, 3, 5, 3>>, <<4, 3, 2, 3>>, <<2, 3>>)
                       => /\ r.technical = 15
                          /\ r.content_keywords = 12
                          /\ r.measurement = 5
                          /\ r.total = 32
    /\ (HasReturned("compute_dimension_score") /\ job.args[1] = <<>>)
          => job.ret = 0

C16_Witness ==
    /\ HasReturned("DeclaredEvaluator.evaluate")
    /\ job.args[1] = Sheet(<<4, 3, 5, 3>>, <<4, 3, 2, 3>>, <<2, 3>>)
    /\ job.ret.total = 32

\* what a risk statement is about
Category(head) ==
    CASE head \in {"CRITICAL PERFORMANCE COLLAPSE", "TECHNICAL DECAY",
                   "UNSTABLE PERFORMANCE", "MONITORING ADVISED"} -> "cwv"
      [] head \in {"STRUCTURAL CATASTROPHE", "SIGNAL MISALIGNMENT",
                   "OPTIMIZATION OPPORTUNITY"} -> "onpage"
      [] head \in {"AUTHORITY VOID", "AUTHORITY DEFICIT"} -> "authority"
      [] head \in {"ORGANIC OBSOLESCENCE", "FRAGMENTED VISIBILITY"} -> "serp"
      [] head \in {"CAPABILITY HALLUCINATION", "UNDERUTILIZED ENGINE"} -> "gap"
      [] OTHER -> "audit"

Advisories == {"MONITORING ADVISED", "OPTIMIZATION OPPORTUNITY",
               "CONTINUOUS IMPROVEMENT"}

\* the fill ratio a category is ranked by
FillRatio(category, observed) ==
    CASE category = "cwv" -> Frac(observed.core_web_vitals, 20)
      [] category = "onpage" -> Frac(observed.onpage, 15)
      [] category = "authority" -> Frac(observed.authority_proxies, 10)
      [] category = "serp" -> Frac(observed.serp_reality, 5)
      [] OTHER -> Zero

\* the categories that are at risk
AtRisk(declared, observed) ==
    {c \in {"cwv"} : Less(FillRatio(c, observed), Frac(4, 5))}
    \cup {c \in {"onpage", "authority", "serp"} :
            Less(FillRatio(c, observed), Frac(3, 4))}
    \cup {c \in {"gap"} : Abs(declared.total - observed.total) > 10}

\* C17: identify_top_risks returns exactly 3 risk statements for every
\* combination of bucket scores and totals: the candidates with the lowest
\* fill ratios come first, in ascending order of fill ratio, no category
\* appears twice, and with fewer than 3 candidates the list is filled up to
\* 3 with maintenance advisories.
C17_ThreeRisks ==
    HasReturned("identify_top_risks")
        => LET declared == job.args[1]
               observed == job.args[2]
               r == job.ret
               cand == AtRisk(declared, observed)
               k == Min2(3, Cardinality(cand))
               cat(i) == Category(r[i])
           IN  /\ Len(r) = 3
               /\ \A i, j \in 1..3 : i < j => cat(i) # cat(j)
               /\ \A i \in 1..k :
                     /\ r[i] \notin Advisories
                     /\ cat(i) \in cand
                     /\ i < k => Leq(FillRatio(cat(i), observed),
                                     FillRatio(cat(i + 1), observed))
                     /\ \A c \in cand \ {cat(j) : j \in 1..k} :
                           Leq(FillRatio(cat(i), observed),
                               FillRatio(c, observed))
               /\ \A i \in (k + 1)..3 : r[i] \in Advisories

C17_Witness ==
    /\ HasReturned("identify_top_risks")
    /\ Cardinality(AtRisk(job.args[1], job.args[2])) = 1
    /\ job.ret[1] \notin Advisories
    /\ job.ret[2] \in Advisories
    /\ job.ret[3] = "CONTINUOUS IMPROVEMENT"

StageOrder == <<"Chaotic", "Reactive", "Structured", "Optimised", "Strategic">>
StageRank(stage) == CHOOSE i \in DOMAIN StageOrder : StageOrder[i] = stage

\* C18: compute_stage is total and monotone: 0..30 is Chaotic, 31..50
\* Reactive, 51..70 Structured, 71..85 Optimised, 86..100 Strategic.
C18_Stages ==
    HasReturned("compute_stage")
        => LET n == job.args[1]
           IN  /\ job.ret \in Range(StageOrder)
               /\ n \in 0..30 <=> job.ret = "Chaotic"
               /\ n \in 31..50 <=> job.ret = "Reactive"
               /\ n \in 51..70 <=> job.ret = "Structured"
               /\ n \in 71..85 <=> job.ret = "Optimised"
               /\ n \in 86..100 <=> job.ret = "Strategic"
               /\ n > 0 => StageRank(ComputeStage(n - 1)) <= StageRank(job.ret)

C18_Witness ==
    /\ HasReturned("compute_stage")
    /\ job.args[1] = 85
    /\ job.ret = "Optimised"

DeclaredExceeds ==
    {"declared capability somewhat exceeds observable execution",
     "declared capability significantly exceeds observable execution"}
ObservedStronger ==
    {"observable execution somewhat stronger than declared capability",
     "observable execution significantly stronger than declared capability"}

\* C19: compute_gap_description, for totals in 0..50, names the severity by
\* the absolute difference (up to 3 Minimal, 4..10 Moderate, above 10 High);
\* Minimal comes with the well-aligned phrase, Moderate and High with the
\* phrase of the declared side exceeding when declared > observed and of the
\* observed side being stronger when declared < observed.
C19_GapDescription ==
    HasReturned("compute_gap_description")
        => LET q == job.args[1]
               o == job.args[2]
               d == IF q > o THEN q - o ELSE o - q
               severity == job.ret[1]
               phrase == job.ret[2]
           IN  /\ d <= 3 <=> severity = "Minimal"
               /\ d \in 4..10 <=> severity = "Moderate"
               /\ d > 10 <=> severity = "High"
               /\ severity = "Minimal"
                     => phrase = "declared and observed capabilities are well-aligned"
               /\ (severity # "Minimal" /\ q > o) => phrase \in DeclaredExceeds
               /\ (severity # "Minimal" /\ q < o) => phrase \in ObservedStronger

C19_Witness ==
    /\ HasReturned("compute_gap_description")
    /\ job.args[1] < job.args[2]
    /\ job.ret[1] = "High"
    /\ job.ret[2] \in ObservedStronger

\* the thresholds a measurement passes; one that is missing passes none
Passed(metrics) ==
    {x \in {"lcp"} : metrics.lcp_ms # None /\ The(metrics.lcp_ms) <= 2500}
    \cup {x \in {"cls"} :
            metrics.cls # None /\ Leq(The(metrics.cls), Frac(100, 1000))}
    \cup {x \in {"inp"} : metrics.inp_ms # None /\ The(metrics.inp_ms) <= 200}

\* C20: compute_cwv_subscore returns 1.0, 0.75, 0.5 or 0.25 for 3, 2, 1 or 0
\* thresholds passed (LCP <= 2500, CLS <= 0.1, INP <= 200, a missing CLS or
\* INP is not passed) whenever lcp_ms is there, and 0.0 whenever it is None.
C20_CwvSubscore ==
    HasReturned("compute_cwv_subscore")
        => LET m == job.args[1]
               n == Cardinality(Passed(m))
           IN  /\ m.lcp_ms = None => Same(job.ret, Zero)
               /\ (m.lcp_ms # None /\ n = 3) => Same(job.ret, Frac(100, 100))
               /\ (m.lcp_ms # None /\ n = 2) => Same(job.ret, Frac(75, 100))
               /\ (m.lcp_ms # None /\ n = 1) => Same(job.ret, Frac(50, 100))
               /\ (m.lcp_ms # None /\ n = 0) => Same(job.ret, Frac(25, 100))

C20_Witness ==
    /\ HasReturned("compute_cwv_subscore")
    /\ job.args[1].lcp_ms = Some(2500)
    /\ job.args[1].cls = None
    /\ job.args[1].inp_ms = Some(200)
    /\ Same(job.ret, Frac(75, 100))

(***************************************************************************)
(* One request: main.submit_grader runs DeclaredEvaluator.evaluate, then   *)
(* ObservedEvaluator.evaluate, which gathers the four signals, asks for    *)
(* the authority metrics and scores, then generate_grader_response.  An    *)
(* adapter returns one of the values its methods can build; what a         *)
(* measurement holds is one of a few numbers.                              *)
(***************************************************************************)
\* an Optional[str] from the text of a measurement
Note(text) == IF text = "None" THEN None ELSE Some(text)

\* PageSpeedAdapter.get_metrics: the values it can return
PageSpeedValues(cfg) ==
    {FallbackHeuristics(fext) : fext \in FallbackOutcomes}
    \cup IF cfg.pagespeed_api_key
         THEN {PsiValue(ext, payload) :
                 ext \in ExtOutcomes \ {"429"}, payload \in Payloads("pagespeed")}
         ELSE {}

\* LCP, CLS and INP of a measurement: a fast and a slow site; the API may
\* lack some of them, a failure has none
CwvMeasurements(item) ==
    CASE item.value \in {"v1", "lab"} ->
            {<<Some(2000), Some(Frac(5, 100)), Some(150)>>,
             <<Some(4200), Some(Frac(30, 100)), Some(600)>>}
      [] item.value = "estimate" ->
            {<<Some(300), Some(Frac(5, 100)), Some(200)>>,
             <<Some(6000), Some(Frac(15, 100)), Some(500)>>}
      [] item.error = "No Chrome user data available" ->
            {<<None, None, None>>, <<Some(2000), None, None>>}
      [] OTHER -> {<<None, None, None>>}

CoreWebVitalsOf(v, m) ==
    [CoreWebVitals EXCEPT !.lcp_ms = m[1], !.cls = m[2], !.inp_ms = m[3],
                          !.is_approximate = v.is_approximate,
                          !.error = Note(v.item.error)]

CwvResults(cfg) ==
    UNION {{CoreWebVitalsOf(v, m) : m \in CwvMeasurements(v.item)} :
             v \in PageSpeedValues(cfg)}

\* WhoisAdapter.get_domain_info: the values it can return
WhoisValues(cfg) ==
    IF cfg.whoisxml_api_key
    THEN {WhoisXmlValue(ext, payload) :
            ext \in ExtOutcomes, payload \in Payloads("whoisxml")}
    ELSE {FallbackWhois(fext, payload) :
            fext \in FallbackOutcomes, payload \in Payloads("whois")}

\* DomainInfo
DomainInfoOf(v, age) ==
    [age_years |-> age, error |-> Note(v.item.error),
     is_approximate |-> v.is_approximate]

DomainResults(cfg) ==
    UNION {{DomainInfoOf(v, age) :
              age \in IF v.item.value = "v1" THEN {Some(2), Some(6)}
                      ELSE {None}} :
             v \in WhoisValues(cfg)}

\* SERPAdapter.check_keywords: what it can find for one keyword
SerpValues(cfg) ==
    CASE SerpBackend(cfg) = "serpapi" ->
            {SerpApiValue(ext, payload) :
                ext \in ExtOutcomes, payload \in Payloads("serpapi")}
      [] SerpBackend(cfg) = "gcs" ->
            {GcsValue(ext, payload) :
                ext \in ExtOutcomes, payload \in Payloads("gcs")}
      [] OTHER -> {}
SerpFindings(cfg) ==
    UNION {{<<v.item, rank>> :
              rank \in IF v.item.value = "v1" THEN {Some(3), Some(25)}
                       ELSE {None}} :
             v \in SerpValues(cfg)}

SerpResultOf(keyword, item, rank) ==
    [Ranked(keyword, rank) EXCEPT !.error = Note(item.error)]

SerpResults(cfg, keywords) ==
    IF keywords = <<>> THEN {SERPSummary(<<>>)}
    ELSE IF SerpBackend(cfg) = "fallback"
    THEN {Summary([i \in DOMAIN keywords |->
                     SerpResultOf(keywords[i],
                                  FallbackResults(keywords).items[i], None)],
                  FallbackResults(keywords).is_approximate)}
    ELSE {Summary([i \in DOMAIN keywords |->
                     SerpResultOf(keywords[i], f[i][1], f[i][2])], FALSE) :
            f \in [DOMAIN keywords -> SerpFindings(cfg)]}

\* AuthorityAdapter._fallback_estimation(domain, domain_age_years,
\* has_brand_presence)
FallbackEstimationOf(domain_age_years, has_brand_presence) ==
    LET age == domain_age_years
        by_age == IF age = None THEN 0
                  ELSE IF The(age) >= 5 THEN 40
                  ELSE IF The(age) >= 3 THEN 30
                  ELSE IF The(age) >= 1 THEN 20
                  ELSE 10
        estimated_refs == IF age # None /\ The(age) >= 2
                          THEN Some(The(age) * 5) ELSE None
        by_refs == IF estimated_refs # None /\ The(estimated_refs) > 5
                   THEN 40 ELSE 0
        by_brand == IF has_brand_presence THEN 20 ELSE 0
    IN  [AuthorityMetrics EXCEPT
            !.domain_authority = Some(Min2(by_age + by_refs + by_brand, 100)),
            !.referring_domains = estimated_refs,
            !.source = FallbackEstimation.source]

\* AuthorityMetrics of _fetch_from_moz
AuthorityOf(v, da) ==
    [AuthorityMetrics EXCEPT
        !.domain_authority = IF v.item.value = "v1" THEN Some(da) ELSE None,
        !.referring_domains = IF v.item.value = "v1" THEN Some(6) ELSE None,
        !.source = v.source,
        !.error = Note(v.item.error)]

\* AuthorityAdapter.get_authority: the values it can return
AuthorityResultsFor(cfg, domain_age_years, has_brand_presence) ==
    CASE AuthorityBackend(cfg) = "moz" ->
            UNION {{AuthorityOf(v, da) :
                      da \in IF v.item.value = "v1" THEN {-5, 35, 150}
                             ELSE {0}} :
                     v \in {MozValue(ext, payload) :
                              ext \in ExtOutcomes, payload \in Payloads("moz")}}
      [] AuthorityBackend(cfg) \in {"ahrefs", "majestic"} ->
            {FallbackEstimationOf(None, FALSE)}
      [] OTHER -> {FallbackEstimationOf(domain_age_years, has_brand_presence)}

\* what the fetch of the page can do
PageFetches ==
    {Fetched("response", "200", TRUE, "",
             [NoPage EXCEPT !.title_length = 45, !.meta_present = TRUE,
                            !.meta_length = 120, !.h1_present = TRUE]),
     Fetched("response", "200", TRUE, "",
             [NoPage EXCEPT !.title_length = 25, !.meta_present = TRUE,
                            !.meta_length = 60]),
     Fetched("response", "403", TRUE, "", NoPage),
     Fetched("response", "404", TRUE, "", NoPage),
     Fetched("timeout", "", TRUE, "", NoPage)}

\* the requests: target_keywords may be empty
KeywordInputs == {<<>>, <<"k1">>}
SomeSheets ==
    {Sheet(<<1, 1, 1, 1>>, <<1, 1, 1, 1>>, <<1, 1>>),
     Sheet(<<4, 3, 5, 3>>, <<4, 3, 2, 3>>, <<2, 3>>),
     Sheet(<<5, 5, 5, 5>>, <<5, 5, 5, 5>>, <<5, 5>>)}

\* str.upper() of a backend's name
Upper(backend) ==
    CASE backend = "moz" -> "MOZ"
      [] backend = "ahrefs" -> "AHREFS"
      [] backend = "majestic" -> "MAJESTIC"
      [] backend = "serpapi" -> "SERPAPI"
      [] backend = "gcs" -> "GCS"
      [] OTHER -> "FALLBACK"

\* the notes of ObservedEvaluator.evaluate, lines 185-198
NotesParts(cfg) ==
    << IF cfg.pagespeed_api_key
       THEN "Core Web Vitals from PageSpeed Insights API"
       ELSE "Core Web Vitals estimated from timing heuristics (approximate)",
       IF AuthorityBackend(cfg) # "fallback"
       THEN "Authority metrics from " \o Upper(AuthorityBackend(cfg))
       ELSE "Authority estimated from domain age and heuristics (approximate)",
       IF SerpBackend(cfg) # "fallback"
       THEN "SERP data from " \o Upper(SerpBackend(cfg))
       ELSE "SERP visibility could not be verified (no API configured)" >>

\* ObservedEvaluator.evaluate from line 165: the ObservedScoreResult
ObservedScoreResult(cfg, keywords, cwv, onpage, domain_info, serp_summary, authority, brand) ==
    LET cwv_score ==
            ComputeObservedBucketScore(ComputeCwvSubscore(cwv),
                                       ObservedWeights.core_web_vitals)
        onpage_score ==
            ComputeObservedBucketScore(ComputeOnpageSubscore(onpage),
                                       ObservedWeights.onpage)
        authority_score ==
            ComputeObservedBucketScore(
                ComputeAuthoritySubscore(authority, domain_info.age_years,
                                         brand),
                ObservedWeights.authority_proxies)
        serp_score ==
            ComputeObservedBucketScore(
                ComputeSerpSubscore(serp_summary, Len(keywords)),
                ObservedWeights.serp_reality)
    IN  [core_web_vitals |-> cwv_score,
         onpage |-> onpage_score,
         authority_proxies |-> authority_score,
         serp_reality |-> serp_score,
         total |-> cwv_score + onpage_score + authority_score + serp_score,
         raw_cwv |-> cwv,
         raw_onpage |-> onpage,
         raw_domain_info |-> domain_info,
         raw_serp |-> serp_summary,
         raw_authority |-> authority,
         notes |-> NotesParts(cfg)]

ErrorCodes == {"ERR_STRUCTURAL_DECAY", "ERR_AUTHORITY_VOID", "ERR_CRAWL_TRAP"}

\* generate_grader_response(declared, observed); selected_err is what
\* random.choice returns
GenerateGraderResponse(declared, observed, selected_err) ==
    LET total_score == ComputeFinalScore(declared, observed)
        raw_onpage == observed.raw_onpage
    IN  [total_score |-> total_score,
         stage |-> ComputeStage(total_score),
         questionnaire_score |-> declared.total,
         observed_score |-> observed.total,
         declared_vs_observed_gap |->
             ComputeGapDescription(declared.total, observed.total),
         top_risks |-> IdentifyTopRisks(declared, observed),
         cwv_notes |-> observed.raw_cwv.error,
         onpage_notes |->
             IF raw_onpage.bot_blocked
             THEN Some("Site restricts automated access - on-page data estimated")
             ELSE IF Truthy(raw_onpage.error) THEN raw_onpage.error
             ELSE None,
         notes |-> IF total_score <= 30
                   THEN <<"CRITICAL SYSTEM FAILURE", selected_err>>
                        \o observed.notes
                   ELSE observed.notes]

Request(answers, keywords) ==
    [fn |-> "submit_grader", pc |-> "received", answers |-> answers,
     keywords |-> keywords]

\* submit_grader up to the gather of ObservedEvaluator.evaluate
Submit ==
    /\ job.fn = "submit_grader"
    /\ job.pc = "received"
    /\ job' = [fn |-> "submit_grader", pc |-> "gather",
               keywords |-> job.keywords,
               declared |-> DeclaredEvaluate(job.answers)]
    /\ UNCHANGED <<clock, th, rlStates, rlLocks, clean, caches, settings>>

\* the gather ends: evaluate goes on to get_authority; _check_brand_presence
\* returns False
Gathered ==
    /\ job.fn = "submit_grader"
    /\ job.pc = "gather"
    /\ \E cwv \in CwvResults(settings), fetch \in PageFetches,
          domain_info \in DomainResults(settings),
          serp_summary \in SerpResults(settings, job.keywords) :
          job' = [fn |-> "submit_grader", pc |-> "authority",
                  keywords |-> job.keywords, declared |-> job.declared,
                  cwv |-> cwv, onpage |-> AnalyzeOnpage(fetch),
                  domain_info |-> domain_info, serp_summary |-> serp_summary,
                  has_brand_presence |-> FALSE]
    /\ UNCHANGED <<clock, th, rlStates, rlLocks, clean, caches, settings>>

\* get_authority returns: evaluate scores and returns, and submit_grader
\* builds the response
Evaluated ==
    /\ job.fn = "submit_grader"
    /\ job.pc = "authority"
    /\ \E authority \in AuthorityResultsFor(settings, job.domain_info.age_years,
                                           job.has_brand_presence),
          selected_err \in ErrorCodes :
          LET observed ==
                  ObservedScoreResult(settings, job.keywords, job.cwv,
                                      job.onpage, job.domain_info,
                                      job.serp_summary, authority,
                                      job.has_brand_presence)
          IN  job' = [fn |-> "submit_grader", pc |-> "done",
                      keywords |-> job.keywords, declared |-> job.declared,
                      observed |-> observed,
                      response |-> GenerateGraderResponse(job.declared,
                                                          observed,
                                                          selected_err)]
    /\ UNCHANGED <<clock, th, rlStates, rlLocks, clean, caches, settings>>

InitEvaluate ==
    /\ clock = StartTime
    /\ th = [t \in {} |-> IdleTask]
    /\ rlStates = [o \in {} |-> RateLimitState]
    /\ rlLocks = [k \in {} |-> NoTask]
    /\ clean = {}
    /\ caches = [n \in {} |-> 0]
    /\ settings \in Environments
    /\ \E answers \in SomeSheets, keywords \in KeywordInputs :
          job = Request(answers, keywords)

NextEvaluate ==
    \/ Submit
    \/ Gathered
    \/ Evaluated

SpecEvaluate == InitEvaluate /\ [][NextEvaluate]_vars

(***************************************************************************)
(* Properties of the evaluation                                            *)
(***************************************************************************)
\* a metric says that it is approximate, or why it holds no data
Flagged(metric) == metric.is_approximate \/ Truthy(metric.error)

\* C11: with no API key configured every adapter resolves to its fallback,
\* and every metric evaluate holds (CoreWebVitals, SERPSummary, DomainInfo,
\* AuthorityMetrics) carries an approximation flag (is_approximate, or the
\* source "fallback") or an error note, for every input, an empty keyword
\* list and an unreachable site included.
C11_NoKeysAllFlagged ==
    (job.fn = "submit_grader" /\ settings = NoKeys)
        => /\ ~settings.pagespeed_api_key
           /\ SerpBackend(settings) = "fallback"
           /\ AuthorityBackend(settings) = "fallback"
           /\ job.pc = "authority"
                 => /\ Flagged(job.cwv)
                    /\ Flagged(job.domain_info)
                    /\ \/ job.serp_summary.is_approximate
                       \/ \E i \in DOMAIN job.serp_summary.results :
                             Truthy(job.serp_summary.results[i].error)
           /\ job.pc = "done"
                 => \/ job.observed.raw_authority.source = "fallback"
                    \/ Truthy(job.observed.raw_authority.error)

\* C15: in every result of an evaluation the observed total is the sum of
\* the four bucket scores and lies in 0..50, the declared total is the sum
\* of the three dimension scores and lies in 0..50, and total_score is
\* declared + observed and lies in 0..100, so that the clamp leaves the sum
\* as it is (declared 32 + observed 33 = 65).
C15_Totals ==
    (job.fn = "submit_grader" /\ job.pc = "done")
        => LET d == job.declared
               o == job.observed
           IN  /\ o.core_web_vitals \in 0..20
               /\ o.onpage \in 0..15
               /\ o.authority_proxies \in 0..10
               /\ o.serp_reality \in 0..5
               /\ o.total = o.core_web_vitals + o.onpage
                            + o.authority_proxies + o.serp_reality
               /\ o.total \in 0..50
               /\ d.total = d.technical + d.content_keywords + d.measurement
               /\ d.total \in 0..50
               /\ job.response.total_score = d.total + o.total
               /\ job.response.total_score \in 0..100
               /\ (d.total = 32 /\ o.total = 33)
                     => job.response.total_score = 65

C15_Witness ==
    /\ job.fn = "submit_grader"
    /\ job.pc = "done"
    /\ job.declared.total = 32
    /\ job.observed.total = 33
    /\ job.response.total_score = 65


(***************************************************************************)
(* The SERP subscore and the capability mismatch                           *)
(***************************************************************************)
\* the results of a summary whose rank is in lo..hi
RankedIn(summary, lo, hi) ==
    {i \in DOMAIN summary.results :
        /\ summary.results[i].rank # None
        /\ The(summary.results[i].rank) \in lo..hi}

\* C21: compute_serp_subscore(summary, n) is (results in the top 10 + half
\* the results in the top 30 but not the top 10) / n, clipped to 0..1, for
\* n > 0, and 0 for n = 0; a keyword that was not found or whose lookup
\* failed adds nothing and still counts in n, so the summary of the fallback
\* scores 0 for every keyword list.
C21_SerpSubscore ==
    HasReturned("compute_serp_subscore")
        => LET summary == job.args[1]
               n == job.args[2]
               halves == 2 * Cardinality(RankedIn(summary, 1, 10))
                         + Cardinality(RankedIn(summary, 11, 30))
           IN  /\ n = 0 => Same(job.ret, Zero)
               /\ (n > 0 /\ halves <= 2 * n)
                     => Same(job.ret, Frac(halves, 2 * n))
               /\ (n > 0 /\ halves > 2 * n) => Same(job.ret, One)
               /\ summary.is_approximate => Same(job.ret, Zero)

\* three keywords, one in the top 10, one in the top 30 and one whose lookup
\* failed: 1.5 / 3
C21_Witness ==
    /\ HasReturned("compute_serp_subscore")
    /\ job.args[2] = 3
    /\ Cardinality(RankedIn(job.args[1], 1, 10)) = 1
    /\ Cardinality(RankedIn(job.args[1], 11, 30)) = 1
    /\ \E i \in DOMAIN job.args[1].results :
          Truthy(job.args[1].results[i].error)
    /\ Same(job.ret, Frac(1, 2))

\* C30: whenever the declared and the observed total differ by more than 10
\* the list identify_top_risks returns holds the capability-mismatch
\* statement, the declared-higher one when declared > observed and the
\* observed-higher one otherwise, whatever the bucket scores are.
C30_MismatchListed ==
    HasReturned("identify_top_risks")
        => LET gap == job.args[1].total - job.args[2].total
           IN  /\ gap > 10 => "CAPABILITY HALLUCINATION" \in Range(job.ret)
               /\ gap < -10 => "UNDERUTILIZED ENGINE" \in Range(job.ret)

(***************************************************************************)
(* generate_grader_response, run twice on the same results                 *)
(***************************************************************************)
\* generate_grader_response returns; random.choice picks one of error_codes
Respond ==
    /\ job.fn = "generate_grader_response"
    /\ Len(job.runs) < 2
    /\ \E selected_err \in ErrorCodes :
          job' = [job EXCEPT !.runs =
                     Append(@, GenerateGraderResponse(job.declared,
                                                      job.observed,
                                                      selected_err))]
    /\ UNCHANGED <<clock, th, rlStates, rlLocks, clean, caches, settings>>

\* the results of the two evaluators for one request
InitRespond ==
    /\ clock = StartTime
    /\ th = [t \in {} |-> IdleTask]
    /\ rlStates = [o \in {} |-> RateLimitState]
    /\ rlLocks = [k \in {} |-> NoTask]
    /\ clean = {}
    /\ caches = [n \in {} |-> 0]
    /\ settings \in Environments
    /\ \E answers \in SomeSheets, keywords \in KeywordInputs,
          cwv \in CwvResults(settings), fetch \in PageFetches,
          domain_info \in DomainResults(settings) :
       \E serp_summary \in SerpResults(settings, keywords),
          authority \in AuthorityResultsFor(settings, domain_info.age_years,
                                            FALSE) :
          job = [fn |-> "generate_grader_response",
                 declared |-> DeclaredEvaluate(answers),
                 observed |-> ObservedScoreResult(settings, keywords, cwv,
                                                  AnalyzeOnpage(fetch),
                                                  domain_info, serp_summary,
                                                  authority, FALSE),
                 runs |-> <<>>]

NextRespond == Respond

SpecRespond == InitRespond /\ [][NextRespond]_vars

\* C22: two runs of generate_grader_response on the same declared and
\* observed results give the same response in every field but the
\* timestamp, whatever the total is.
C22_SameResponse ==
    (job.fn = "generate_grader_response" /\ Len(job.runs) = 2)
        => job.runs[1] = job.runs[2]

(***************************************************************************)
(* The notes of an observed result and the source of its signals           *)
(***************************************************************************)
\* the notes _fallback_heuristics puts on its CoreWebVitals
HeuristicNotes ==
    {Note(FallbackHeuristics(fext).item.error) : fext \in FallbackOutcomes}

\* the metric was built by the heuristic fallback of its adapter
CwvByHeuristic(cwv) == cwv.error \in HeuristicNotes
AuthorityByHeuristic(authority) ==
    authority.source = FallbackEstimation.source
        /\ authority.domain_authority # None
SerpByFallback(serp_summary) == serp_summary.is_approximate

\* the parts of the notes that name a live API
LiveNotes ==
    {"Core Web Vitals from PageSpeed Insights API",
     "Authority metrics from MOZ", "Authority metrics from AHREFS",
     "Authority metrics from MAJESTIC", "SERP data from SERPAPI",
     "SERP data from GCS"}

\* C26: the notes of an observed result name the source of each signal
\* truthfully: a signal the notes attribute to a live API was produced by
\* that API and not by the heuristic fallback, and a signal the fallback
\* produced is marked as estimated in the notes.
C26_NotesNameSource ==
    (job.fn = "submit_grader" /\ job.pc = "done")
        => LET o == job.observed
           IN  /\ CwvByHeuristic(o.raw_cwv) => o.notes[1] \notin LiveNotes
               /\ AuthorityByHeuristic(o.raw_authority)
                     => o.notes[2] \notin LiveNotes
               /\ SerpByFallback(o.raw_serp) => o.notes[3] \notin LiveNotes

(***************************************************************************)
(* The adapters: the rate limiter's state, the locks and the cache         *)
(***************************************************************************)
\* the positions of a task whose external call is in progress
ExternalPcs == {"http", "fallback_http", "fallback_io"}

\* the rate-limited call of request t has ended
Ended(t) ==
    /\ th[t].kind = "adapter"
    /\ th[t].pc = "done"
    /\ th[t].how = "fresh"
    /\ th[t].origin # ""

\* C28: whatever the external requests answer, each rate-limited call ends
\* with report_success: every origin's consecutive_failures and
\* backoff_until stay 0 in every reachable state and no acquire waits for a
\* backoff window; only the minimum interval paces the calls.
C28_NeverBacksOff ==
    /\ \A o \in DOMAIN rlStates :
          /\ rlStates[o].consecutive_failures = 0
          /\ rlStates[o].backoff_until = 0
    /\ \A t \in DOMAIN th :
          /\ th[t].pc # "sleep_backoff"
          /\ Ended(t) => th[t].report = "success"

\* a call whose backend timed out has ended, and a second call to the same
\* origin sleeps for the minimum interval
C28_Witness ==
    \E t, u \in DOMAIN th :
        /\ Ended(t)
        /\ th[t].ext = "timeout"
        /\ th[t].report = "success"
        /\ rlStates[th[t].origin].consecutive_failures = 0
        /\ th[u].pc = "sleep_interval"
        /\ th[u].origin = th[t].origin

\* the result holds a measurement with an error note
HasError(result) ==
    \E i \in DOMAIN result.items : result.items[i].error # "None"

\* request u has fetched the value of key and the value holds an error
FailedFor(u, key) ==
    /\ th[u].kind = "adapter"
    /\ th[u].pc = "done"
    /\ th[u].how = "fresh"
    /\ th[u].key = key
    /\ HasError(th[u].result)

\* C29: the cache stores whatever the fetch returns, a result with an error
\* included: once a fetch for a key has returned an error result, a later
\* call with that key returns the same result from the cache, without a new
\* external request, while the entry is neither expired nor evicted.
C29_ErrorIsCached ==
    [][\A t, u \in DOMAIN th :
          (th[t].pc = "idle" /\ th'[t].pc # "idle"
              /\ FailedFor(u, th'[t].key))
             => /\ th'[t].pc = "done"
                /\ th'[t].how = "hit"
                /\ th'[t].result = th[u].result]_vars

\* a request was answered from the cache with the error result of a fetch
\* that timed out
C29_Witness ==
    \E t, u \in DOMAIN th :
        /\ FailedFor(u, th[t].key)
        /\ th[u].ext = "timeout"
        /\ th[t].pc = "done"
        /\ th[t].how = "hit"
        /\ th[t].result = th[u].result

\* the positions at which a task is suspended inside a "with _cache_lock"
\* block: none, since neither block of async_wrapper holds an await
CacheLockPcs == {}

\* C25: no lock is held while an external call is in progress: a task whose
\* request is pending holds no origin lock and is in no block of the cache
\* lock, a task that waits for an origin lock waits for one that is free or
\* held by a task sleeping in acquire, and a task that is idle can make
\* its call, cached lookup included, whatever is pending.
C25_NoLockAcrossCall ==
    /\ \A t \in DOMAIN th :
          th[t].pc \in ExternalPcs
             => /\ \A k \in DOMAIN rlLocks : rlLocks[k] # t
                /\ th[t].pc \notin CacheLockPcs
    /\ \A u \in DOMAIN th :
          th[u].pc = "wait_lock"
             => \/ rlLocks[th[u].lock] = NoTask
                \/ th[rlLocks[th[u].lock]].pc \in CriticalPcs
    /\ \A u \in DOMAIN th :
          (th[u].pc = "idle"
              /\ \E t \in DOMAIN th : th[t].pc \in ExternalPcs)
             => ENABLED AdapterCall(u)

\* one request's call to an origin is pending while the other request
\* holds the lock of that origin, asleep in acquire
C25_Witness ==
    \E t, u \in DOMAIN th :
        /\ th[t].pc = "http"
        /\ th[u].pc = "sleep_interval"
        /\ th[u].origin = th[t].origin
        /\ rlLocks[th[u].lock] = u

(***************************************************************************)
(* One call of ObservedEvaluator.evaluate with its tasks                   *)
(*                                                                         *)
(* __init__ builds the four adapters, each of which chooses its backend;   *)
(* evaluate hands the tasks of the batch to asyncio.gather and waits; the  *)
(* tasks run the adapter methods through the cache and the rate limiter    *)
(* and end in any order; then evaluate calls get_authority and scores.     *)
(***************************************************************************)
\* the tasks of the batch in the order gather is given them, and the call
\* evaluate awaits after the batch
BatchTasks == <<"cwv_task", "onpage_task", "domain_task", "serp_task">>
AuthorityCallTask == "get_authority"
EvaluateTasks == Range(BatchTasks) \cup {AuthorityCallTask}

\* the adapter object behind a task and the address of that object
AdapterOf(t) ==
    CASE t = "cwv_task" -> "PageSpeedAdapter"
      [] t = "domain_task" -> "WhoisAdapter"
      [] t = "serp_task" -> "SERPAdapter"
      [] t = AuthorityCallTask -> "AuthorityAdapter"
AddrOf(t) ==
    CASE t = "cwv_task" -> "0x7f01"
      [] t = "domain_task" -> "0x7f02"
      [] t = "serp_task" -> "0x7f03"
      [] t = AuthorityCallTask -> "0x7f04"

\* the fields the constructors set: is_configured of PageSpeedAdapter and
\* WhoisAdapter, backend of SERPAdapter and AuthorityAdapter
Construct(cfg) ==
    [pagespeed |-> cfg.pagespeed_api_key,
     whois |-> cfg.whoisxml_api_key,
     serp |-> SerpBackend(cfg),
     authority |-> AuthorityBackend(cfg)]

\* get_metrics, check_keywords, get_domain_info, get_authority of the
\* adapters self, up to the first suspension
MethodBody(t, r, cs, self) ==
    CASE r.adapter = "PageSpeedAdapter" ->
            IF self.pagespeed
            THEN RateLimited(t, r, "pagespeed", cs)
            ELSE Fallback(t, r, "fallback_http", cs)
      [] r.adapter = "SERPAdapter" ->
            IF self.serp = "fallback"
            THEN Immediate(t, r, cs, FallbackResults(Keywords(r)))
            ELSE RateLimited(t, r, self.serp, cs)
      [] r.adapter = "WhoisAdapter" ->
            IF self.whois
            THEN RateLimited(t, r, "whoisxml", cs)
            ELSE Fallback(t, r, "fallback_io", cs)
      [] r.adapter = "AuthorityAdapter" ->
            IF self.authority = "moz"
            THEN RateLimited(t, r, "moz", cs)
            ELSE Immediate(t, r, cs, FallbackEstimation)

\* async_wrapper of the method of task t, called with args
MethodCall(t, args, self) ==
    LET adapter == AdapterOf(t)
        r == [AdapterTask EXCEPT
                 !.adapter = adapter, !.addr = AddrOf(t), !.args = args,
                 !.name = CacheOf(adapter),
                 !.key = MakeCacheKey(PrefixOf(adapter),
                                      StrSelf(adapter, AddrOf(t)) \o args),
                 !.prior = Prior(adapter, args)]
    IN  \/ Lookup(t, r, clock)
        \/ Miss(r) /\ MethodBody(t, r, GetCache(caches, r.name), self)

\* the site of the request, and a domain age as str() renders it
Site == "site-a"
StrAge(age) ==
    CASE age = None -> "domain_age_years=None"
      [] age = Some(2) -> "domain_age_years=2"
      [] age = Some(6) -> "domain_age_years=6"

\* a task of the batch that gather was handed and that has not started
NotStarted == [AdapterTask EXCEPT !.kind = "task"]
\* serp_task is None
NoSerpTask == [AdapterTask EXCEPT !.kind = "task", !.pc = "none"]

\* a task of the batch starts and runs to its first suspension; the tasks
\* start in the order gather was given them
TaskStart(t) ==
    /\ job.fn = "ObservedEvaluator.evaluate"
    /\ \E i \in DOMAIN BatchTasks :
          /\ BatchTasks[i] = t
          /\ \A j \in 1..(i - 1) : th[BatchTasks[j]].pc # "idle"
    /\ th[t].pc = "idle"
    /\ IF t = "onpage_task"
       THEN /\ th' = [th EXCEPT ![t] = [@ EXCEPT !.pc = "fetch"]]
            /\ UNCHANGED <<rlStates, rlLocks, caches>>
       ELSE MethodCall(t, IF t = "serp_task" THEN <<Site>> \o job.keywords
                          ELSE <<Site>>,
                       job.self)
    /\ UNCHANGED <<clock, clean, settings, job>>

\* client.get of _analyze_onpage ends: it times out or the page arrives
OnpageDone(t) ==
    /\ th[t].pc = "fetch"
    /\ \E fetch \in {f \in PageFetches :
                        f.outcome = "timeout" \/ f.page.title_length = 45} :
          th' = [th EXCEPT ![t] = [@ EXCEPT !.pc = "done",
                                            !.result = AnalyzeOnpage(fetch)]]
    /\ UNCHANGED <<clock, rlStates, rlLocks, clean, caches, settings, job>>

\* a mutation of gather: it does not wait for serp_task
BatchDoneButSerp(tasks) ==
    \A t \in Range(BatchTasks) \ {"serp_task"} : tasks[t].pc \in {"done", "none"}

\* gather returns when every task it was given has returned
BatchDone(tasks) ==
    \A t \in Range(BatchTasks) : tasks[t].pc \in {"done", "none"}

\* the value of an adapter task as the adapter's dataclass, a measurement
\* that holds data holding the first of the numbers of CwvMeasurements,
\* an age of 6 years, a rank of 3 and a domain authority of 35
Measured(result) ==
    [item |-> result.items[1], is_approximate |-> result.is_approximate,
     source |-> result.source]
CwvOf(result) ==
    CoreWebVitalsOf(Measured(result),
                    CHOOSE m \in CwvMeasurements(result.items[1]) :
                       m[1] = None \/ The(m[1]) <= 2500)
DomainOf(result) ==
    DomainInfoOf(Measured(result),
                 IF result.items[1].value = "v1" THEN Some(6) ELSE None)
SerpOf(keywords, result) ==
    IF keywords = <<>> THEN SERPSummary(<<>>)
    ELSE Summary([i \in DOMAIN result.items |->
                    SerpResultOf(keywords[i], result.items[i],
                                 IF result.items[i].value = "v1"
                                 THEN Some(3) ELSE None)],
                 result.is_approximate)
AuthorityFrom(self, result, domain_age_years, has_brand_presence) ==
    IF result.items[1].by = "_fetch_from_moz"
    THEN AuthorityOf(Measured(result),
                     IF result.items[1].value = "v1" THEN 35 ELSE 0)
    ELSE IF self.authority \in {"ahrefs", "majestic"}
    THEN FallbackEstimationOf(None, FALSE)
    ELSE FallbackEstimationOf(domain_age_years, has_brand_presence)

\* gather returns what the tasks returned, in the order of the tasks, and
\* evaluate calls get_authority with the age of the domain
GatherReturns ==
    /\ job.fn = "ObservedEvaluator.evaluate"
    /\ job.pc = "gather"
    /\ BatchDone(th)
    /\ LET domain_info == DomainOf(th["domain_task"].result)
       IN  /\ job' = [fn |-> job.fn, pc |-> "authority", self |-> job.self,
                      keywords |-> job.keywords,
                      cwv |-> CwvOf(th["cwv_task"].result),
                      onpage |-> th["onpage_task"].result,
                      domain_info |-> domain_info,
                      serp_summary |->
                          SerpOf(job.keywords, th["serp_task"].result),
                      has_brand_presence |-> FALSE]
           /\ MethodCall(AuthorityCallTask,
                         <<Site, StrAge(domain_info.age_years),
                           "has_brand_presence=False">>,
                         job.self)
    /\ UNCHANGED <<clock, clean, settings>>

\* get_authority has returned: evaluate scores and returns
EvaluateReturns ==
    /\ job.fn = "ObservedEvaluator.evaluate"
    /\ job.pc = "authority"
    /\ th[AuthorityCallTask].pc = "done"
    /\ job' = [fn |-> job.fn, pc |-> "done", self |-> job.self,
               keywords |-> job.keywords,
               observed |->
                   ObservedScoreResult(
                       settings, job.keywords, job.cwv, job.onpage,
                       job.domain_info, job.serp_summary,
                       AuthorityFrom(job.self, th[AuthorityCallTask].result,
                                     job.domain_info.age_years,
                                     job.has_brand_presence),
                       job.has_brand_presence)]
    /\ UNCHANGED <<clock, th, rlStates, rlLocks, clean, caches, settings>>

\* another request's get_metrics for another site, asleep in acquire with
\* the lock of its origin
OtherRequest == "other_request"
AsleepInAcquire ==
    [AdapterTask EXCEPT
        !.pc = "sleep_interval", !.origin = "pagespeed",
        !.lock = LockKey("pagespeed"), !.wake = StartTime + 1,
        !.adapter = "PageSpeedAdapter", !.addr = "0x7f05",
        !.args = <<"site-b">>, !.name = CacheOf("PageSpeedAdapter"),
        !.key = MakeCacheKey(PrefixOf("PageSpeedAdapter"),
                             StrSelf("PageSpeedAdapter", "0x7f05")
                                \o <<"site-b">>),
        !.kw = 1, !.page = 1]

\* the tasks of an evaluate call that has reached its gather
Gathering(keywords) ==
    [t \in EvaluateTasks |->
        IF t = "serp_task" /\ keywords = <<>> THEN NoSerpTask ELSE NotStarted]

\* the origins of the rate-limited functions
AdapterOrigins == {"pagespeed", "serpapi", "gcs", "whoisxml", "moz"}

\* a deployment with a PageSpeed key and no other key
PageSpeedOnly == [NoKeys EXCEPT !.pagespeed_api_key = TRUE]

\* evaluate is called on a new evaluator. The process is new, or a request
\* to each origin has just been made, or another request is under way
InitObserve ==
    /\ clock = StartTime
    /\ clean = {}
    /\ caches = [n \in {} |-> 0]
    /\ \E keywords \in KeywordInputs :
          /\ \/ /\ settings \in Environments
                /\ th = Gathering(keywords)
                /\ rlStates = [o \in {} |-> RateLimitState]
                /\ rlLocks = [k \in {} |-> NoTask]
             \/ /\ settings \in Environments
                /\ th = Gathering(keywords)
                /\ rlStates = [o \in AdapterOrigins |->
                                 [RateLimitState EXCEPT
                                     !.last_request_time = StartTime]]
                /\ rlLocks = [k \in {LockKey(o) : o \in AdapterOrigins} |->
                                 NoTask]
             \/ /\ settings = PageSpeedOnly
                /\ keywords = <<>>
                /\ th = [t \in EvaluateTasks \cup {OtherRequest} |->
                           IF t = OtherRequest THEN AsleepInAcquire
                           ELSE Gathering(keywords)[t]]
                /\ rlStates = [o \in {"pagespeed"} |->
                                 [RateLimitState EXCEPT
                                     !.last_request_time = StartTime]]
                /\ rlLocks = [k \in {LockKey("pagespeed")} |-> OtherRequest]
          /\ job = [fn |-> "ObservedEvaluator.evaluate", pc |-> "gather",
                    self |-> Construct(settings), keywords |-> keywords]

NextObserve ==
    \/ \E t \in DOMAIN th : TaskStart(t)
    \/ \E t \in DOMAIN th : OnpageDone(t)
    \/ \E t \in DOMAIN th : LockGranted(t)
    \/ \E t \in DOMAIN th : WakeInterval(t)
    \/ \E t \in DOMAIN th : HttpDone(t)
    \/ \E t \in DOMAIN th : FallbackDone(t)
    \/ SleepTick
    \/ GatherReturns
    \/ EvaluateReturns

SpecObserve == InitObserve /\ [][NextObserve]_vars

\* the event loop runs whatever can run
FairObserve == SpecObserve /\ WF_vars(NextObserve)

\* the call of task t has been made: the task was created and has run
Invoked(t) == th[t].pc \notin {"idle", "none"}

\* the scores evaluate returns for what its five fetches returned
ScoresOf(tasks) ==
    LET domain_info == DomainOf(tasks["domain_task"].result)
    IN  ObservedScoreResult(
            settings, job.keywords, CwvOf(tasks["cwv_task"].result),
            tasks["onpage_task"].result, domain_info,
            SerpOf(job.keywords, tasks["serp_task"].result),
            AuthorityFrom(job.self, tasks[AuthorityCallTask].result,
                          domain_info.age_years, FALSE),
            FALSE)

\* C23: in one evaluate call get_authority starts only when every task of
\* the batch has returned, in whatever order they returned; it is called with
\* age_years of the WHOIS result of this call; the scores returned are the
\* scores of what the fetches returned; and check_keywords is called exactly
\* when the keyword list is not empty.
C23_AuthorityFollowsBatch ==
    /\ Invoked(AuthorityCallTask)
          => /\ \A t \in Range(BatchTasks) : th[t].pc \in {"done", "none"}
             /\ th[AuthorityCallTask].args[2]
                   = StrAge(DomainOf(th["domain_task"].result).age_years)
    /\ job.pc = "done" => job.observed = ScoresOf(th)
    /\ (th["serp_task"].pc # "none") <=> (job.keywords # <<>>)
    /\ (job.pc # "gather" /\ job.keywords # <<>>)
          => th["serp_task"].adapter = "SERPAdapter"

\* C23 witness: the WHOIS and SERP lookups have returned while PageSpeed is
\* still being awaited, and get_authority has not started
C23_Witness ==
    /\ th["domain_task"].pc = "done"
    /\ th["serp_task"].pc = "done"
    /\ th["onpage_task"].pc = "fetch"
    /\ th["cwv_task"].pc = "http"
    /\ ~Invoked(AuthorityCallTask)

\* C27: the backend of each adapter is the one its constructor chose from
\* the configuration by the fixed priority, in every state of the call:
\* SerpApi, then Google Custom Search with key and cx, then the fallback;
\* Moz with id and secret, then Ahrefs, then Majestic, then the fallback;
\* the API key or the fallback for PageSpeed and WHOIS.
C27_BackendIsFixed ==
    /\ job.self.pagespeed = settings.pagespeed_api_key
    /\ job.self.whois = settings.whoisxml_api_key
    /\ job.self.serp =
          (CASE settings.serpapi_key -> "serpapi"
             [] ~settings.serpapi_key
                   /\ settings.gcs_api_key /\ settings.gcs_cx -> "gcs"
             [] OTHER -> "fallback")
    /\ job.self.authority =
          (CASE settings.moz_access_id /\ settings.moz_secret_key -> "moz"
             [] ~(settings.moz_access_id /\ settings.moz_secret_key)
                   /\ settings.ahrefs_api_key -> "ahrefs"
             [] ~(settings.moz_access_id /\ settings.moz_secret_key)
                   /\ ~settings.ahrefs_api_key
                   /\ settings.majestic_api_key -> "majestic"
             [] OTHER -> "fallback")

\* C27 witness: evaluate has returned after PageSpeed answered 429 and Moz
\* timed out, with every key configured
C27_Witness ==
    /\ job.pc = "done"
    /\ settings = AllKeys
    /\ th["cwv_task"].ext = "429"
    /\ th[AuthorityCallTask].ext = "timeout"
    /\ job.self.serp = "serpapi"

\* C24: a fetch of the call that timed out or failed has returned a result
\* with an error note.
C24_FailedFetchIsTagged ==
    \A t \in EvaluateTasks :
        (Answered(t) /\ th[t].pc = "done" /\ th[t].ext \in Failures)
            => \E i \in DOMAIN th[t].result.items :
                  th[t].result.items[i].error # "None"

\* evaluate returns, and in every state a task of the call that has not
\* returned can take a step or waits for gather
EvaluateReturned == <>(job.pc = "done")
NoTaskCancelled ==
    \A t \in EvaluateTasks : th[t].pc \notin {"cancelled", "raised"}
====
